---------------------------- MODULE Spec2Model ----------------------------
(***************************************************************************)
(* Model of the enrollment analytics engine (src/utils/metrics.py,         *)
(* src/utils/data_model.py, src/utils/calculations.py) and of the          *)
(* benchmarking page's peer selector.                                      *)
(*                                                                         *)
(* The engine is a library of pure functions.  Each function is an         *)
(* operator computed the way the Python code computes it; a call is a      *)
(* two-step behaviour: Init draws the arguments (pc = "call"), the         *)
(* function's action applies it and stores what the call produced          *)
(* (pc = "done"): a returned value, or the exception it raised.            *)
(*                                                                         *)
(* Numbers.  Python floats are modelled by exact rationals kept as         *)
(* integer numerators over a fixed power of ten:                           *)
(*   - a rate passed to the simulator is a whole percentage 0..100;        *)
(*   - a value the code rounds with round(x, 2) is kept in hundredths;     *)
(*   - round(x) and round(x, 2) round half to even, as Python does.        *)
(* The rounding and the comparisons act on the exact value: where the      *)
(* exact value is a tie, the binary float of the code may sit on either    *)
(* side of it.                                                             *)
(* Optional[float] values are None (<<>>) or Some(v) (<<v>>).  Where a     *)
(* function can meet NaN, an infinity or None among its numbers, a number  *)
(* is a record [cls, num, den]: finite num/den, "nan", "inf" or "none".    *)
(***************************************************************************)
EXTENDS Integers, Sequences, FiniteSets, TLC

VARIABLES pc, op, args, res

vars == <<pc, op, args, res>>

\* ------------------------------------------------------------------------
\* Values shared by every call
\* ------------------------------------------------------------------------

None == <<>>

Some(v) == <<v>>

\* What a call produced: a returned value or a raised exception.
Return(v) == [kind |-> "ok", value |-> v]

Raise(e) == [kind |-> "error", error |-> e]

NoResult == [kind |-> "pending"]

Min(a, b) == IF a <= b THEN a ELSE b

Max(a, b) == IF a >= b THEN a ELSE b

Abs(a) == IF a < 0 THEN 0 - a ELSE a

\* round(n / d) for d > 0, half to even (Python 3 round()).
RoundHalfEven(n, d) ==
    LET q == n \div d
        r == n % d
    IN  IF 2 * r < d THEN q
        ELSE IF 2 * r > d THEN q + 1
        ELSE IF q % 2 = 0 THEN q ELSE q + 1

\* 10^k.
RECURSIVE Pow10(_)
Pow10(k) == IF k = 0 THEN 1 ELSE 10 * Pow10(k - 1)

\* round(n * 10^k / d) for d > 0, half to even: round(x, 2) of a quotient is
\* ScaledRound(n, d, 2) hundredths.  Long division, one digit at a time, so
\* that no intermediate product leaves the 32-bit range.
RECURSIVE ScaledRound(_, _, _)
ScaledRound(n, d, k) ==
    IF k = 0 THEN RoundHalfEven(n, d)
    ELSE LET q == n \div d
             r == n % d
         IN  q * Pow10(k) + ScaledRound(10 * r, d, k - 1)

\* ------------------------------------------------------------------------
\* Scenario simulation (src/utils/data_model.py)
\* ------------------------------------------------------------------------

\* Upper end of the percentage scale, and the divisor turning a percentage
\* into a fraction.
Pct == 100

\* Largest yield-rate improvement goal seeking considers, in points.
MaxYieldPp == 10

\* Largest admit-rate improvement goal seeking considers, in points.
MaxAdmitPp == 10

\* Largest applicants growth, in percent, for which the goal counts as met.
MaxApplicantsPct == 30

\* The 'change' a "Maximize yield rate" recommendation reports, in points.
YieldMaxChange == 10

\* The 'change' a "Maximize admit rate" recommendation reports, in points.
AdmitMaxChange == 10

\* UnclampedRate: the projected rate taken as base + change.
UnclampedRate(x) == x

\* max(0, min(100, x)): the clamp of a projected rate.
ClampRate(x) == Max(0, Min(Pct, x))

\* The right-hand side of proj_applicants, as a numerator over 100.
\* ProjApplicantsMissingBase: a scaling that drops the "1 +".
ProjApplicantsMissingBase(base_applicants, applicants_change_pct) ==
    base_applicants * applicants_change_pct

ProjApplicants100(base_applicants, applicants_change_pct) ==
    base_applicants * (Pct + applicants_change_pct)

\* delta_enrolled_pct.  base_enrolled and proj_enrolled arrive as numerators
\* over 10^6; the result is in hundredths of a percent.
DeltaEnrolledPct(proj_n, base_n) ==
    IF base_n > 0 THEN Some(ScaledRound(proj_n - base_n, base_n, 4))
    ELSE Some(0)

\* simulate_enrollment with whole-percentage rates and changes.  Counts are
\* integers (round(x)), rates are hundredths of a percent (round(x, 2)).
simulate_enrollment(base_applicants, base_admit_rate, base_yield_rate, applicants_change_pct, admit_rate_change_pp, yield_rate_change_pp) ==
    LET base_enrolled_n == base_applicants * Pct * base_admit_rate * base_yield_rate
        proj_applicants_n == ProjApplicants100(base_applicants, applicants_change_pct)
        proj_admit_rate == ClampRate(base_admit_rate + admit_rate_change_pp)
        proj_yield_rate == ClampRate(base_yield_rate + yield_rate_change_pp)
        proj_enrolled_n == proj_applicants_n * proj_admit_rate * proj_yield_rate
        proj_admitted_n == proj_applicants_n * proj_admit_rate
    IN  Return([
          base_applicants  |-> base_applicants,
          base_admit_rate  |-> Pct * base_admit_rate,
          base_yield_rate  |-> Pct * base_yield_rate,
          base_enrolled    |-> RoundHalfEven(base_enrolled_n, Pct * Pct * Pct),
          proj_applicants  |-> RoundHalfEven(proj_applicants_n, Pct),
          proj_admitted    |-> RoundHalfEven(proj_admitted_n, Pct * Pct),
          proj_admit_rate  |-> Pct * proj_admit_rate,
          proj_yield_rate  |-> Pct * proj_yield_rate,
          proj_enrolled    |-> RoundHalfEven(proj_enrolled_n, Pct * Pct * Pct),
          proj_conversion  |-> IF proj_applicants_n > 0
                                 THEN proj_admit_rate * proj_yield_rate
                                 ELSE 0,
          delta_enrolled   |-> RoundHalfEven(proj_enrolled_n - base_enrolled_n,
                                             Pct * Pct * Pct),
          delta_enrolled_pct |-> DeltaEnrolledPct(proj_enrolled_n, base_enrolled_n)
        ])

\* The test that returns early: the gap (goal - base_enrolled) is not positive.
\* Both sides are numerators over 10^4.
\* GapStrictlyNegative: "<" where the code has "<=".
GapStrictlyNegative(goal_n, base_enrolled_n) == goal_n - base_enrolled_n < 0

GapClosed(goal_n, base_enrolled_n) == goal_n - base_enrolled_n <= 0

\* RecommendationInWholePoints: the change cut to a whole number.
RecommendationInWholePoints(lever, change, unit, priority, message) ==
    [lever |-> lever, change |-> Pct * (change \div Pct), unit |-> unit,
     priority |-> priority, message |-> message]

\* One entry of the recommendation list.  change is in hundredths (of a point
\* or of a percent); message is the f-string's fixed text.
Recommendation(lever, change, unit, priority, message) ==
    [lever |-> lever, change |-> change, unit |-> unit,
     priority |-> priority, message |-> message]

\* applicants_change <= 30: the applicants growth that closes the gap left at
\* both maxima is within the limit.  Both arguments are numerators over 10^4.
\* ApplicantsChangeBeyondLimit: ">=" where the code has "<=".
ApplicantsChangeBeyondLimit(goal_n, with_both_n) ==
    (goal_n - with_both_n) * Pct >= MaxApplicantsPct * with_both_n

ApplicantsChangeWithinLimit(goal_n, with_both_n) ==
    (goal_n - with_both_n) * Pct <= MaxApplicantsPct * with_both_n

\* calculate_goal_recommendations with whole-percentage rates.  Every float
\* division of the code is guarded the way Python guards it: a zero divisor
\* raises ZeroDivisionError.
calculate_goal_recommendations(base_applicants, base_admit_rate, base_yield_rate, enrollment_goal) ==
    LET base_enrolled_n == base_applicants * base_admit_rate * base_yield_rate
        goal_n == enrollment_goal * Pct * Pct
        max_yield == Min(Pct, base_yield_rate + MaxYieldPp)
        max_admit == Min(Pct, base_admit_rate + MaxAdmitPp)
        with_max_yield_n == base_applicants * base_admit_rate * max_yield
        with_both_n == base_applicants * max_admit * max_yield
        yield_max_rec ==
            IF max_yield > base_yield_rate
            THEN << Recommendation("yield_rate", Pct * YieldMaxChange, "pp", 1,
                                   "Maximize yield rate") >>
            ELSE << >>
        admit_max_rec ==
            IF max_admit > base_admit_rate
            THEN << Recommendation("admit_rate", Pct * AdmitMaxChange, "pp", 2,
                                   "Maximize admit rate") >>
            ELSE << >>
    IN  IF GapClosed(goal_n, base_enrolled_n)
        THEN Return([goal_met |-> TRUE,
                     message |-> "Current trajectory meets or exceeds goal",
                     recommendations |-> << >>])
        ELSE IF with_max_yield_n >= goal_n
        THEN \* needed_yield = goal / (applicants * admit_rate / 100) * 100
             IF base_applicants * base_admit_rate = 0
             THEN Raise("ZeroDivisionError")
             ELSE Return([goal_met |-> TRUE,
                          recommendations |-> <<
                            Recommendation("yield_rate",
                                ScaledRound(goal_n - base_enrolled_n,
                                            base_applicants * base_admit_rate, 2),
                                "pp", 1, "Increase yield rate") >>])
        ELSE IF with_both_n >= goal_n
        THEN \* needed_admit = goal / (applicants * max_yield / 100) * 100
             IF base_applicants * max_yield = 0
             THEN Raise("ZeroDivisionError")
             ELSE Return([goal_met |-> TRUE,
                          recommendations |-> yield_max_rec \o <<
                            Recommendation("admit_rate",
                                ScaledRound(goal_n - base_applicants * base_admit_rate * max_yield,
                                            base_applicants * max_yield, 2),
                                "pp", 2, "Increase admit rate") >>])
        ELSE \* needed_applicants = goal / (max_admit / 100) / (max_yield / 100)
             \* applicants_change = (needed_applicants - applicants) / applicants * 100
             IF max_admit = 0 \/ max_yield = 0 \/ base_applicants = 0
             THEN Raise("ZeroDivisionError")
             ELSE LET within == ApplicantsChangeWithinLimit(goal_n, with_both_n)
                  IN  Return([goal_met |-> within,
                              recommendations |-> yield_max_rec \o admit_max_rec \o <<
                                Recommendation("applicants",
                                    ScaledRound(goal_n - with_both_n, with_both_n, 4),
                                    "%", 3, "Increase applicants") >>,
                              message |-> IF within
                                          THEN "Combination of improvements needed"
                                          ELSE "Goal may be challenging with current constraints"])

\* ------------------------------------------------------------------------
\* Calls of the scenario simulator
\* ------------------------------------------------------------------------

\* Largest enrollment goal asked for.
MaxGoal == 45

\* Base applicants of the scenarios: none, a handful, a cohort.
BaseApplicants == {0, 8, 100}

\* Base admit and yield rates, in percent: both ends of the scale, values a
\* ten-point raise clamps, and values it does not.
BaseRates == {0, 5, 40, 50, 95, 100}

\* Slider values of the simulator page: applicants change in percent.
ApplicantsChanges == {-30, -10, 0, 10, 30}

\* Slider values of the simulator page: rate changes in points.
RateChanges == {-10, 0, 10}

SimulateArgs ==
    [base_applicants : BaseApplicants, base_admit_rate : BaseRates,
     base_yield_rate : BaseRates, applicants_change_pct : ApplicantsChanges,
     admit_rate_change_pp : RateChanges, yield_rate_change_pp : RateChanges]

GoalArgs ==
    [base_applicants : BaseApplicants, base_admit_rate : BaseRates,
     base_yield_rate : BaseRates, enrollment_goal : 0..MaxGoal]

InitSimulate == pc = "call" /\ op = "simulate" /\ args \in SimulateArgs /\ res = NoResult

InitGoal == pc = "call" /\ op = "goalSeek" /\ args \in GoalArgs /\ res = NoResult

Simulate ==
    /\ pc = "call" /\ op = "simulate"
    /\ res' = simulate_enrollment(args.base_applicants, args.base_admit_rate,
                                  args.base_yield_rate, args.applicants_change_pct,
                                  args.admit_rate_change_pp, args.yield_rate_change_pp)
    /\ pc' = "done"
    /\ UNCHANGED <<op, args>>

GoalSeek ==
    /\ pc = "call" /\ op = "goalSeek"
    /\ res' = calculate_goal_recommendations(args.base_applicants, args.base_admit_rate,
                                             args.base_yield_rate, args.enrollment_goal)
    /\ pc' = "done"
    /\ UNCHANGED <<op, args>>

SpecSimulate == InitSimulate /\ [][Simulate]_vars

SpecGoal == InitGoal /\ [][GoalSeek]_vars

\* ------------------------------------------------------------------------
\* Decomposition of the enrolled variation (src/utils/metrics.py)
\* ------------------------------------------------------------------------

\* A rate argument is carried in hundredths: 5000 is the percentage 50, 50 is
\* the fraction 0.50.  The code divides by 100 whatever is greater than 1; the
\* fraction that results is again in hundredths.
NormalizeRate(rate) == IF rate > Pct THEN rate \div Pct ELSE rate

\* residual, from the unrounded delta and effects (numerators over 10^4).
\* ResidualWithoutYield: the leftover taken without the yield effect.
ResidualWithoutYield(delta_enrolled, effect_applicants, effect_admit_rate, effect_yield) ==
    delta_enrolled - (effect_applicants + effect_admit_rate)

Residual(delta_enrolled, effect_applicants, effect_admit_rate, effect_yield) ==
    delta_enrolled - (effect_applicants + effect_admit_rate + effect_yield)

\* max(effects, key=effects.get) over the insertion order applicants,
\* admit_rate, yield_rate (the first largest wins), then the direction of the
\* signed effect.
\* PrimaryDriverLastLargest: of equal largest effects the last one wins.
PrimaryDriverLastLargest(effect_app, effect_admit, effect_yield) ==
    LET primary ==
            IF Abs(effect_yield) >= Abs(effect_admit) /\ Abs(effect_yield) >= Abs(effect_app)
            THEN "yield_rate"
            ELSE IF Abs(effect_admit) >= Abs(effect_app) THEN "admit_rate"
            ELSE "applicants"
        actual == CASE primary = "applicants" -> effect_app
                    [] primary = "admit_rate" -> effect_admit
                    [] OTHER -> effect_yield
    IN  primary \o (IF actual > 0 THEN "_increase" ELSE "_decrease")

identify_primary_driver(effect_app, effect_admit, effect_yield) ==
    LET primary ==
            IF Abs(effect_app) >= Abs(effect_admit) /\ Abs(effect_app) >= Abs(effect_yield)
            THEN "applicants"
            ELSE IF Abs(effect_admit) >= Abs(effect_yield) THEN "admit_rate"
            ELSE "yield_rate"
        actual == CASE primary = "applicants" -> effect_app
                    [] primary = "admit_rate" -> effect_admit
                    [] OTHER -> effect_yield
    IN  primary \o (IF actual > 0 THEN "_increase" ELSE "_decrease")

\* decompose_enrolled_variation.  Unrounded quantities are numerators over
\* 10^4; every returned number is round()ed on its own.
\* DecomposeApplicantsLevel: the applicants effect taken from the compare
\* level A1 in place of the change A1 - A0.
DecomposeApplicantsLevel(applicants_base, admit_rate_base, yield_rate_base, applicants_compare, admit_rate_compare, yield_rate_compare) ==
    LET r0 == NormalizeRate(admit_rate_base)
        y0 == NormalizeRate(yield_rate_base)
        r1 == NormalizeRate(admit_rate_compare)
        y1 == NormalizeRate(yield_rate_compare)
        A0 == applicants_base
        A1 == applicants_compare
        enrolled_base == A0 * r0 * y0
        enrolled_compare == A1 * r1 * y1
        delta_enrolled == enrolled_compare - enrolled_base
        effect_applicants == A1 * r0 * y0
        effect_admit_rate == A1 * (r1 - r0) * y0
        effect_yield == A1 * r1 * (y1 - y0)
        residual == Residual(delta_enrolled, effect_applicants, effect_admit_rate, effect_yield)
    IN  Return([
          enrolled_base     |-> RoundHalfEven(enrolled_base, Pct * Pct),
          enrolled_compare  |-> RoundHalfEven(enrolled_compare, Pct * Pct),
          delta_enrolled    |-> RoundHalfEven(delta_enrolled, Pct * Pct),
          effect_applicants |-> RoundHalfEven(effect_applicants, Pct * Pct),
          effect_admit_rate |-> RoundHalfEven(effect_admit_rate, Pct * Pct),
          effect_yield      |-> RoundHalfEven(effect_yield, Pct * Pct),
          residual          |-> RoundHalfEven(residual, Pct * Pct),
          primary_driver    |-> identify_primary_driver(effect_applicants,
                                    effect_admit_rate, effect_yield)
        ])

decompose_enrolled_variation(applicants_base, admit_rate_base, yield_rate_base, applicants_compare, admit_rate_compare, yield_rate_compare) ==
    LET r0 == NormalizeRate(admit_rate_base)
        y0 == NormalizeRate(yield_rate_base)
        r1 == NormalizeRate(admit_rate_compare)
        y1 == NormalizeRate(yield_rate_compare)
        A0 == applicants_base
        A1 == applicants_compare
        enrolled_base == A0 * r0 * y0
        enrolled_compare == A1 * r1 * y1
        delta_enrolled == enrolled_compare - enrolled_base
        effect_applicants == (A1 - A0) * r0 * y0
        effect_admit_rate == A1 * (r1 - r0) * y0
        effect_yield == A1 * r1 * (y1 - y0)
        residual == Residual(delta_enrolled, effect_applicants, effect_admit_rate, effect_yield)
    IN  Return([
          enrolled_base     |-> RoundHalfEven(enrolled_base, Pct * Pct),
          enrolled_compare  |-> RoundHalfEven(enrolled_compare, Pct * Pct),
          delta_enrolled    |-> RoundHalfEven(delta_enrolled, Pct * Pct),
          effect_applicants |-> RoundHalfEven(effect_applicants, Pct * Pct),
          effect_admit_rate |-> RoundHalfEven(effect_admit_rate, Pct * Pct),
          effect_yield      |-> RoundHalfEven(effect_yield, Pct * Pct),
          residual          |-> RoundHalfEven(residual, Pct * Pct),
          primary_driver    |-> identify_primary_driver(effect_applicants,
                                    effect_admit_rate, effect_yield)
        ])

\* Applicants of the two periods.
DecompApplicants == {0, 2, 1000, 1100}

\* Rates of the two periods, in hundredths: fractions (0, 0.01, 0.5, 0.75, 1)
\* and percentages (40, 42, 50, 52).
DecompRates == {0, 1, 50, 75, 100, 4000, 4200, 5000, 5200}

DecomposeArgs ==
    [applicants_base : DecompApplicants, admit_rate_base : DecompRates,
     yield_rate_base : DecompRates, applicants_compare : DecompApplicants,
     admit_rate_compare : DecompRates, yield_rate_compare : DecompRates]

InitDecompose == pc = "call" /\ op = "decompose" /\ args \in DecomposeArgs /\ res = NoResult

Decompose ==
    /\ pc = "call" /\ op = "decompose"
    /\ res' = decompose_enrolled_variation(args.applicants_base, args.admit_rate_base,
                  args.yield_rate_base, args.applicants_compare,
                  args.admit_rate_compare, args.yield_rate_compare)
    /\ pc' = "done"
    /\ UNCHANGED <<op, args>>

SpecDecompose == InitDecompose /\ [][Decompose]_vars

\* ------------------------------------------------------------------------
\* Insight generation (src/utils/metrics.py)
\* ------------------------------------------------------------------------

\* A Python dict is a function from its keys; {} is the function with no key.
EmptyDict == [k \in {} |-> 0]

\* d.get(k, default)
Get(d, k, default) == IF k \in DOMAIN d THEN d[k] ELSE default

\* The YoY decline, in percent, below which the danger insight is emitted.
DeclineThreshold == -5

\* The YoY growth, in percent, above which the success insight is emitted.
GrowthThreshold == 10

\* The most insights returned.
InsightLimit == 6

\* driver.replace('_', ' ').title() on the drivers the decomposition names.
DriverTitle(driver) ==
    CASE driver = "applicants_increase" -> "Applicants Increase"
      [] driver = "applicants_decrease" -> "Applicants Decrease"
      [] driver = "admit_rate_increase" -> "Admit Rate Increase"
      [] driver = "admit_rate_decrease" -> "Admit Rate Decrease"
      [] driver = "yield_rate_increase" -> "Yield Rate Increase"
      [] driver = "yield_rate_decrease" -> "Yield Rate Decrease"
      [] driver = "unknown" -> "Unknown"
      [] OTHER -> driver

\* The percentile a rule compares against: stats.get(key, 0).
Percentile(stats, key) == Get(stats, key, 0)

\* The detail line of the decline insight.
\* DeclineDetailAlwaysDriver: the fallback branch left out.
DeclineDetailAlwaysDriver(driver) == "Primary driver: " \o DriverTitle(driver)

DeclineDetail(driver) ==
    IF driver # "" /\ driver # "unknown"
    THEN "Primary driver: " \o DriverTitle(driver)
    ELSE "Insufficient data to compute drivers for this institution"

\* An insight.  message keeps the f-string's fixed text and the numbers it
\* formats.
Insight(type, metric, message, detail) ==
    [type |-> type, metric |-> metric, message |-> message, detail |-> detail]

\* Rule 1: yield rate against the cohort's p75 and p25.
\* YieldInsightsBothBranches: "if" where the code has "elif", so that both
\* branches can contribute.
YieldInsightsBothBranches(institution_data, peer_percentiles) ==
    IF "yield_rate" \in DOMAIN institution_data /\ "yield_rate" \in DOMAIN peer_percentiles
    THEN LET yield_val == institution_data["yield_rate"]
             p75 == Percentile(peer_percentiles["yield_rate"], "p75")
             p25 == Percentile(peer_percentiles["yield_rate"], "p25")
         IN  (IF yield_val > p75
              THEN << Insight("success", "yield_rate",
                          <<"Strong yield rate above 75th percentile", yield_val, p75>>,
                          "Indicates strong student intent and institutional attractiveness") >>
              ELSE << >>)
             \o (IF yield_val < p25
                 THEN << Insight("warning", "yield_rate",
                             <<"Yield rate below 25th percentile", yield_val, p25>>,
                             "Consider strategies to improve conversion of admitted students") >>
                 ELSE << >>)
    ELSE << >>

YieldInsights(institution_data, peer_percentiles) ==
    IF "yield_rate" \in DOMAIN institution_data /\ "yield_rate" \in DOMAIN peer_percentiles
    THEN LET yield_val == institution_data["yield_rate"]
             p75 == Percentile(peer_percentiles["yield_rate"], "p75")
             p25 == Percentile(peer_percentiles["yield_rate"], "p25")
         IN  IF yield_val > p75
             THEN << Insight("success", "yield_rate",
                         <<"Strong yield rate above 75th percentile", yield_val, p75>>,
                         "Indicates strong student intent and institutional attractiveness") >>
             ELSE IF yield_val < p25
             THEN << Insight("warning", "yield_rate",
                         <<"Yield rate below 25th percentile", yield_val, p25>>,
                         "Consider strategies to improve conversion of admitted students") >>
             ELSE << >>
    ELSE << >>

\* Rule 2: admit rate against the cohort's p25.
AdmitInsights(institution_data, peer_percentiles) ==
    IF "admit_rate" \in DOMAIN institution_data /\ "admit_rate" \in DOMAIN peer_percentiles
    THEN LET admit_val == institution_data["admit_rate"]
             p25 == Percentile(peer_percentiles["admit_rate"], "p25")
         IN  IF admit_val < p25
             THEN << Insight("info", "admit_rate",
                         <<"High selectivity with admit rate", admit_val>>,
                         "Below 25th percentile indicates competitive admissions") >>
             ELSE << >>
    ELSE << >>

\* Rule 3: the YoY change of enrolled.  delta_enrolled is None or Some(d), d in
\* hundredths of a percent; the message formats it to one decimal.
EnrolledInsights(yoy_metrics) ==
    IF DOMAIN yoy_metrics # {} /\ Get(yoy_metrics, "delta_enrolled", None) # None
    THEN LET delta == yoy_metrics["delta_enrolled"][1]
         IN  IF delta < DeclineThreshold * Pct
             THEN << Insight("danger", "enrolled",
                         <<"Enrollment declined year-over-year", RoundHalfEven(Abs(delta), 10)>>,
                         DeclineDetail(Get(yoy_metrics, "primary_driver", ""))) >>
             ELSE IF delta > GrowthThreshold * Pct
             THEN << Insight("success", "enrolled",
                         <<"Strong enrollment growth year-over-year", RoundHalfEven(delta, 10)>>,
                         "Positive momentum in student recruitment") >>
             ELSE << >>
    ELSE << >>

\* Rule 4: diversity index against the cohort's p75.
DiversityInsights(institution_data, peer_percentiles) ==
    IF "diversity_index" \in DOMAIN institution_data /\ "diversity_index" \in DOMAIN peer_percentiles
    THEN LET div_val == institution_data["diversity_index"]
             p75 == Percentile(peer_percentiles["diversity_index"], "p75")
         IN  IF div_val > p75
             THEN << Insight("info", "diversity",
                         <<"High diversity composition", div_val>>,
                         "Above 75th percentile relative to peers") >>
             ELSE << >>
    ELSE << >>

\* generate_insights: the four rules in order, then insights[:6].
generate_insights(institution_data, peer_percentiles, yoy_metrics) ==
    LET insights == YieldInsights(institution_data, peer_percentiles)
                    \o AdmitInsights(institution_data, peer_percentiles)
                    \o EnrolledInsights(yoy_metrics)
                    \o DiversityInsights(institution_data, peer_percentiles)
    IN  Return(SubSeq(insights, 1, Min(Len(insights), InsightLimit)))

\* The metrics the rules read.
InsightMetrics == {"yield_rate", "admit_rate", "diversity_index"}

\* Metric values of the entity: below p25, between p25 and p75, above p75.
MetricValues == {2, 4, 8}

\* Percentile summaries of one metric: p25 = 3 and p75 = 6, each present or
\* not ({} is the empty stats struct).
PeerStats == { [k \in D |-> IF k = "p25" THEN 3 ELSE 6] : D \in SUBSET {"p25", "p75"} }

\* Every dict with keys among Keys and values in Vals.
Dicts(Keys, Vals) == UNION { [D -> Vals] : D \in SUBSET Keys }

\* YoY enrolled deltas, in hundredths of a percent, on both sides of the two
\* thresholds.
YoYDeltas == {-501, -500, 1000, 1001}

\* Primary drivers handed to the generator.
Drivers == {"", "unknown", "yield_rate_decrease"}

YoYMetrics ==
    {EmptyDict}
    \cup { [delta_enrolled |-> d] : d \in {None} \cup {Some(x) : x \in YoYDeltas} }
    \cup { [delta_enrolled |-> d, primary_driver |-> p] :
             d \in {None} \cup {Some(x) : x \in YoYDeltas}, p \in Drivers }

InsightArgs ==
    [institution_data : Dicts(InsightMetrics, MetricValues),
     peer_percentiles : Dicts(InsightMetrics, PeerStats),
     yoy_metrics : YoYMetrics]

InitInsights == pc = "call" /\ op = "insights" /\ args \in InsightArgs /\ res = NoResult

GenerateInsights ==
    /\ pc = "call" /\ op = "insights"
    /\ res' = generate_insights(args.institution_data, args.peer_percentiles, args.yoy_metrics)
    /\ pc' = "done"
    /\ UNCHANGED <<op, args>>

SpecInsights == InitInsights /\ [][GenerateInsights]_vars

\* ------------------------------------------------------------------------
\* Peer group selection (src/utils/data_model.py, src/modules/page_benchmarking.py)
\* ------------------------------------------------------------------------

\* A table is a sequence of rows; a row carries the columns the selectors
\* read.  A missing attribute is NaN, which equals nothing, itself included.
NaN == "NaN"

\* pandas' elementwise == on an object column.
ColEq(a, b) == a # NaN /\ b # NaN /\ a = b

\* The institution names of a table.
NamesOf(table) == { table[i].institution_name : i \in DOMAIN table }

\* FirstRows: the first n rows in table order (head(n)).
FirstRows(table, n) ==
    [k \in 1..(IF n <= 0 THEN 0 ELSE Min(n, Len(table))) |-> table[k]]

\* year_data.nlargest(n, 'applicants'): the n rows with the most applicants,
\* largest first, ties in table order (keep='first'); nothing when n <= 0.
NLargest(table, n) ==
    LET Before(i) == Cardinality({ j \in DOMAIN table :
                        \/ table[j].applicants > table[i].applicants
                        \/ table[j].applicants = table[i].applicants /\ j < i })
        size == IF n <= 0 THEN 0 ELSE Min(n, Len(table))
    IN  [k \in 1..size |-> table[CHOOSE i \in DOMAIN table : Before(i) = k - 1]]

\* The default of get_peer_group's n, which the page passes for the modes
\* that do not read it.
DefaultN == 25

\* get_peer_group.  similar_institutions is None or Some(names), the
\* institution_name column of the pre-calculated frame.
\* PeerGroupFailClosed: an empty table when the target has no row for the year.
PeerGroupFailClosed(facts, target_institution, year, peer_type, n, similar_institutions) ==
    LET InYear(row) == row.year = year
        year_data == SelectSeq(facts, InYear)
        IsTarget(row) == row.institution_name = target_institution
        target_data == SelectSeq(year_data, IsTarget)
        target_row == target_data[1]
        SameRegion(row) == ColEq(row.region, target_row.region)
        SameState(row) == ColEq(row.state, target_row.state)
        SameSize(row) == ColEq(row.institution_size, target_row.institution_size)
        IsSimilar(row) == row.institution_name \in similar_institutions[1] \cup {target_institution}
    IN  IF Len(year_data) = 0 THEN Return(<< >>)
        ELSE IF Len(target_data) = 0 THEN Return(<< >>)
        ELSE IF peer_type = "national" THEN Return(year_data)
        ELSE IF peer_type = "same_region" THEN Return(SelectSeq(year_data, SameRegion))
        ELSE IF peer_type = "same_state" THEN Return(SelectSeq(year_data, SameState))
        ELSE IF peer_type = "same_size" THEN Return(SelectSeq(year_data, SameSize))
        ELSE IF peer_type = "top_n_applicants" THEN Return(NLargest(year_data, n))
        ELSE IF peer_type = "similar" /\ similar_institutions # None
        THEN Return(SelectSeq(year_data, IsSimilar))
        ELSE Return(year_data)

get_peer_group(facts, target_institution, year, peer_type, n, similar_institutions) ==
    LET InYear(row) == row.year = year
        year_data == SelectSeq(facts, InYear)
        IsTarget(row) == row.institution_name = target_institution
        target_data == SelectSeq(year_data, IsTarget)
        target_row == target_data[1]
        SameRegion(row) == ColEq(row.region, target_row.region)
        SameState(row) == ColEq(row.state, target_row.state)
        SameSize(row) == ColEq(row.institution_size, target_row.institution_size)
        IsSimilar(row) == row.institution_name \in similar_institutions[1] \cup {target_institution}
    IN  IF Len(year_data) = 0 THEN Return(<< >>)
        ELSE IF Len(target_data) = 0 THEN Return(year_data)
        ELSE IF peer_type = "national" THEN Return(year_data)
        ELSE IF peer_type = "same_region" THEN Return(SelectSeq(year_data, SameRegion))
        ELSE IF peer_type = "same_state" THEN Return(SelectSeq(year_data, SameState))
        ELSE IF peer_type = "same_size" THEN Return(SelectSeq(year_data, SameSize))
        ELSE IF peer_type = "top_n_applicants" THEN Return(NLargest(year_data, n))
        ELSE IF peer_type = "similar" /\ similar_institutions # None
        THEN Return(SelectSeq(year_data, IsSimilar))
        ELSE Return(year_data)

\* The benchmarking page's peer_group().  similar_df is what
\* find_similar_institutions_simple returned: None when it was not called,
\* Some(names) otherwise (no names: the empty frame).
page_peer_group(df, target, year, peer_type, n, similar_df) ==
    LET InYear(row) == row.year = year
        year_data == SelectSeq(df, InYear)
        IsTarget(row) == row.institution_name = target
        target_row == SelectSeq(year_data, IsTarget)
        SameRegion(row) == ColEq(row.region, target_row[1].region)
        SameState(row) == ColEq(row.state, target_row[1].state)
        SameSize(row) == ColEq(row.institution_size, target_row[1].institution_size)
        IsSimilar(row) == row.institution_name \in similar_df[1] \cup {target}
        top == NLargest(year_data, n)
        peers ==
            IF peer_type = "national" THEN year_data
            ELSE IF peer_type = "same_region" /\ target # ""
            THEN IF Len(target_row) # 0 THEN SelectSeq(year_data, SameRegion) ELSE year_data
            ELSE IF peer_type = "same_state" /\ target # ""
            THEN IF Len(target_row) # 0 THEN SelectSeq(year_data, SameState) ELSE year_data
            ELSE IF peer_type = "same_size" /\ target # ""
            THEN IF Len(target_row) # 0 THEN SelectSeq(year_data, SameSize) ELSE year_data
            ELSE IF peer_type = "top_n_applicants"
            THEN IF target # "" /\ target \notin NamesOf(top) THEN top \o target_row ELSE top
            ELSE IF peer_type = "similar" /\ similar_df # None /\ similar_df # Some({})
            THEN SelectSeq(year_data, IsSimilar)
            ELSE year_data
    IN  IF Len(df) = 0 THEN Return(<< >>)
        ELSE IF target # "" /\ target \notin NamesOf(peers)
        THEN Return(peers \o target_row)
        ELSE Return(peers)

\* The institutions of the fact table, one row each, in this order.
Institutions == <<"Alpha", "Beta", "Gamma">>

\* The year asked for, and the year before it.
Years == {2022, 2023}

\* Region, state and size band of a row: two institutions of one region in
\* different states and size bands, and a row with all three missing.
Attributes ==
    { [region |-> "West", state |-> "CA", institution_size |-> "Large"],
      [region |-> "West", state |-> "OR", institution_size |-> "Small"],
      [region |-> NaN, state |-> NaN, institution_size |-> NaN] }

\* Applicants of a row.
ApplicantCounts == {100, 200}

\* Largest n asked of top_n_applicants.
MaxN == 2

RowsOf(name) ==
    { [institution_name |-> name, year |-> y, region |-> a.region, state |-> a.state,
       institution_size |-> a.institution_size, applicants |-> c] :
        y \in Years, a \in Attributes, c \in ApplicantCounts }

FactTables ==
    { <<r1, r2, r3>> : r1 \in RowsOf(Institutions[1]), r2 \in RowsOf(Institutions[2]),
                       r3 \in RowsOf(Institutions[3]) }

\* The target selected: an institution, or nothing selected.
Targets == { Institutions[i] : i \in DOMAIN Institutions } \cup {""}

\* peer_type, n and similar_institutions of a call for a target; "custom" is
\* a peer_type no branch of the selectors names.
PeerModes(target) ==
    { [peer_type |-> t, n |-> DefaultN, similar |-> None] :
        t \in {"national", "same_region", "same_state", "same_size", "custom"} }
    \cup { [peer_type |-> "top_n_applicants", n |-> k, similar |-> None] : k \in 0..MaxN }
    \cup { [peer_type |-> "similar", n |-> DefaultN, similar |-> sim] :
             sim \in {None} \cup { Some(S) : S \in SUBSET (Targets \ {target, ""}) } }

PeerCall(f, t, m) ==
    [facts |-> f, target |-> t, year |-> 2023, peer_type |-> m.peer_type, n |-> m.n,
     similar |-> m.similar]

InitPeer ==
    /\ pc = "call" /\ op \in {"get_peer_group", "peer_group"}
    /\ \E f \in FactTables, t \in Targets : \E m \in PeerModes(t) : args = PeerCall(f, t, m)
    /\ res = NoResult

\* A call of the engine's selector.
GetPeerGroup ==
    /\ pc = "call" /\ op = "get_peer_group"
    /\ res' = get_peer_group(args.facts, args.target, args.year, args.peer_type,
                             args.n, args.similar)
    /\ pc' = "done"
    /\ UNCHANGED <<op, args>>

\* An evaluation of the page's reactive peer_group().
PagePeerGroup ==
    /\ pc = "call" /\ op = "peer_group"
    /\ res' = page_peer_group(args.facts, args.target, args.year, args.peer_type,
                              args.n, args.similar)
    /\ pc' = "done"
    /\ UNCHANGED <<op, args>>

SpecPeer == InitPeer /\ [][GetPeerGroup \/ PagePeerGroup]_vars

\* ------------------------------------------------------------------------
\* Year-over-year deltas (src/utils/metrics.py)
\* ------------------------------------------------------------------------

\* A Python number-or-None as the delta calculators can receive it: a finite
\* value num/den (den > 0), NaN, an infinity (num is its sign), or None.
Finite(n, d) == [cls |-> "finite", num |-> n, den |-> d]

FloatNaN == [cls |-> "nan", num |-> 0, den |-> 1]

FloatInf(sign) == [cls |-> "inf", num |-> sign, den |-> 1]

PyNone == [cls |-> "none", num |-> 0, den |-> 1]

Sign(n) == IF n > 0 THEN 1 ELSE IF n < 0 THEN 0 - 1 ELSE 0

\* pd.isna(x): None and NaN are missing, an infinity is not.
IsNa(x) == x.cls \in {"none", "nan"}

\* x == 0
IsZero(x) == x.cls = "finite" /\ x.num = 0

\* a - b in IEEE arithmetic.
FloatSub(a, b) ==
    IF a.cls = "nan" \/ b.cls = "nan" THEN FloatNaN
    ELSE IF a.cls = "finite" /\ b.cls = "finite"
    THEN Finite(a.num * b.den - b.num * a.den, a.den * b.den)
    ELSE IF b.cls = "finite" THEN a
    ELSE IF a.cls = "finite" THEN FloatInf(0 - b.num)
    ELSE IF a.num = b.num THEN FloatNaN ELSE a

\* a / b in IEEE arithmetic, for b # 0.
FloatDiv(a, b) ==
    IF a.cls = "nan" \/ b.cls = "nan" THEN FloatNaN
    ELSE IF a.cls = "finite" /\ b.cls = "finite"
    THEN Finite(a.num * b.den * Sign(b.num), a.den * Abs(b.num))
    ELSE IF b.cls = "finite" THEN FloatInf(a.num * Sign(b.num))
    ELSE IF a.cls = "finite" THEN Finite(0, 1)
    ELSE FloatNaN

\* a * 100 in IEEE arithmetic.
FloatTimes100(a) == IF a.cls = "finite" THEN Finite(Pct * a.num, a.den) ELSE a

\* The test that makes calculate_yoy_delta_count return None.
NoDelta(current, previous) ==
    previous.cls = "none" \/ IsZero(previous) \/ IsNa(previous) \/ IsNa(current)

\* calculate_yoy_delta_count.  A float division by a zero the guard let
\* through raises ZeroDivisionError.
calculate_yoy_delta_count(current, previous) ==
    IF NoDelta(current, previous) THEN Return(PyNone)
    ELSE IF IsZero(previous) THEN Raise("ZeroDivisionError")
    ELSE Return(FloatTimes100(FloatDiv(FloatSub(current, previous), previous)))

\* calculate_yoy_delta_rate
calculate_yoy_delta_rate(current_rate, previous_rate) ==
    IF IsNa(current_rate) \/ IsNa(previous_rate) THEN Return(PyNone)
    ELSE Return(FloatSub(current_rate, previous_rate))

\* Largest count handed to the delta calculators.
MaxDeltaCount == 8

\* Values handed to the delta calculators: counts, a negative number, and
\* every non-finite or missing value.
DeltaValues ==
    { Finite(n, 1) : n \in (0 - 1)..MaxDeltaCount }
    \cup { FloatNaN, FloatInf(1), FloatInf(0 - 1), PyNone }

DeltaArgs == [current : DeltaValues, previous : DeltaValues]

InitDelta ==
    /\ pc = "call" /\ op \in {"countDelta", "rateDelta"}
    /\ args \in DeltaArgs /\ res = NoResult

CountDelta ==
    /\ pc = "call" /\ op = "countDelta"
    /\ res' = calculate_yoy_delta_count(args.current, args.previous)
    /\ pc' = "done"
    /\ UNCHANGED <<op, args>>

RateDelta ==
    /\ pc = "call" /\ op = "rateDelta"
    /\ res' = calculate_yoy_delta_rate(args.current, args.previous)
    /\ pc' = "done"
    /\ UNCHANGED <<op, args>>

SpecDelta == InitDelta /\ [][CountDelta \/ RateDelta]_vars

\* ------------------------------------------------------------------------
\* Year-over-year metrics of a table (src/utils/metrics.py)
\* ------------------------------------------------------------------------

\* df[col].sum()
RECURSIVE SumCol(_, _)
SumCol(table, col) ==
    IF Len(table) = 0 THEN 0 ELSE table[1][col] + SumCol(Tail(table), col)

\* (num / den * 100) if den > 0 else 0, unrounded.
RateOrZero(num, den) == IF den > 0 THEN Finite(Pct * num, den) ELSE Finite(0, 1)

\* round(x, 2) of a finite float, in hundredths.
Round2(x) == ScaledRound(x.num, x.den, 2)

\* round(delta, 2) if delta is not None else None
Round2OrNone(delta) == IF delta.cls = "none" THEN None ELSE Some(Round2(delta))

\* The prev_year entry of the result.
\* PrevYearAlwaysReported: the year before, whether it has rows or not.
PrevYearAlwaysReported(prev_year, prev_data) == Some(prev_year)

PrevYearReported(prev_year, prev_data) ==
    IF Len(prev_data) # 0 THEN Some(prev_year) ELSE None

\* get_yoy_metrics.  Counts are integers; rates and deltas are hundredths
\* (round(x, 2)), the deltas None or Some(d).
get_yoy_metrics(df, year) ==
    LET prev_year == year - 1
        InYear(row) == row.year = year
        InPrevYear(row) == row.year = prev_year
        current_data == SelectSeq(df, InYear)
        prev_data == SelectSeq(df, InPrevYear)
        curr_applicants == SumCol(current_data, "applicants")
        curr_admitted == SumCol(current_data, "admissions")
        curr_enrolled == SumCol(current_data, "enrolled_total")
        curr_admit_rate == RateOrZero(curr_admitted, curr_applicants)
        curr_yield_rate == RateOrZero(curr_enrolled, curr_admitted)
        prev_applicants == SumCol(prev_data, "applicants")
        prev_admitted == SumCol(prev_data, "admissions")
        prev_enrolled == SumCol(prev_data, "enrolled_total")
        prev_admit_rate == RateOrZero(prev_admitted, prev_applicants)
        prev_yield_rate == RateOrZero(prev_enrolled, prev_admitted)
        has_prev == Len(prev_data) # 0
        CountDeltaOf(curr, prev) ==
            IF has_prev
            THEN calculate_yoy_delta_count(Finite(curr, 1), Finite(prev, 1)).value
            ELSE PyNone
        RateDeltaOf(curr, prev) ==
            IF has_prev THEN calculate_yoy_delta_rate(curr, prev).value ELSE PyNone
    IN  IF Len(current_data) = 0 THEN Return(EmptyDict)
        ELSE Return([
               year             |-> year,
               prev_year        |-> PrevYearReported(prev_year, prev_data),
               applicants       |-> curr_applicants,
               admitted         |-> curr_admitted,
               enrolled         |-> curr_enrolled,
               admit_rate       |-> Round2(curr_admit_rate),
               yield_rate       |-> Round2(curr_yield_rate),
               delta_applicants |-> Round2OrNone(CountDeltaOf(curr_applicants, prev_applicants)),
               delta_admitted   |-> Round2OrNone(CountDeltaOf(curr_admitted, prev_admitted)),
               delta_enrolled   |-> Round2OrNone(CountDeltaOf(curr_enrolled, prev_enrolled)),
               delta_admit_rate |-> Round2OrNone(RateDeltaOf(curr_admit_rate, prev_admit_rate)),
               delta_yield_rate |-> Round2OrNone(RateDeltaOf(curr_yield_rate, prev_yield_rate))
             ])

\* Applicants, admissions and enrolled of a row: an empty funnel, funnels
\* with different rates, and one that admits everybody.
FunnelCounts ==
    { [applicants |-> 0, admissions |-> 0, enrolled_total |-> 0],
      [applicants |-> 10, admissions |-> 5, enrolled_total |-> 2],
      [applicants |-> 20, admissions |-> 5, enrolled_total |-> 5],
      [applicants |-> 4, admissions |-> 4, enrolled_total |-> 1] }

\* The rows of a funnel table: a year and its counts.
FunnelRows ==
    { [year |-> y, applicants |-> c.applicants, admissions |-> c.admissions,
       enrolled_total |-> c.enrolled_total] : y \in Years, c \in FunnelCounts }

\* Most rows of a funnel table.
MaxFunnelRows == 3

\* The funnel tables: every sequence of at most MaxFunnelRows rows.
FunnelTables == UNION { [1..k -> FunnelRows] : k \in 0..MaxFunnelRows }

YoYArgs == [df : FunnelTables, year : Years]

InitYoY == pc = "call" /\ op = "yoyMetrics" /\ args \in YoYArgs /\ res = NoResult

GetYoYMetrics ==
    /\ pc = "call" /\ op = "yoyMetrics"
    /\ res' = get_yoy_metrics(args.df, args.year)
    /\ pc' = "done"
    /\ UNCHANGED <<op, args>>

SpecYoY == InitYoY /\ [][GetYoYMetrics]_vars

\* ------------------------------------------------------------------------
\* Derived rates (src/utils/metrics.py, src/utils/data_model.py,
\* src/utils/calculations.py)
\* ------------------------------------------------------------------------

\* A rate rounded to k decimals, as the float it is: n / 10^k.
RoundedRate(x, k) == Finite(ScaledRound(x.num, x.den, k), Pow10(k))

\* calculate_funnel_leakage
calculate_funnel_leakage(applicants, admitted, enrolled) ==
    LET leakage_stage1 == applicants - admitted
        leakage_stage2 == admitted - enrolled
        selection_rate == RateOrZero(admitted, applicants)
        yield_rate == RateOrZero(enrolled, admitted)
        overall_conversion == RateOrZero(enrolled, applicants)
    IN  Return([
          leakage_stage1     |-> leakage_stage1,
          leakage_stage2     |-> leakage_stage2,
          total_leakage      |-> leakage_stage1 + leakage_stage2,
          selection_rate     |-> RoundedRate(selection_rate, 2),
          yield_rate         |-> RoundedRate(yield_rate, 2),
          overall_conversion |-> RoundedRate(overall_conversion, 2)
        ])

\* The years of a table in ascending order: the groups of groupby('year').
RECURSIVE SortedYears(_)
SortedYears(years) ==
    IF years = {} THEN << >>
    ELSE LET first == CHOOSE y \in years : \A z \in years : y <= z
         IN  <<first>> \o SortedYears(years \ {first})

\* The rows of table that belong to year y.
YearSlice(table, y) ==
    LET InYear(row) == row.year = y
    IN  SelectSeq(table, InYear)

\* num / den * 100 on pandas columns: a zero denominator gives NaN for 0 / 0
\* and an infinity otherwise, without raising.
ColumnRate(num, den) ==
    IF den # 0 THEN Finite(Pct * num, den)
    ELSE IF num = 0 THEN FloatNaN ELSE FloatInf(Sign(num))

\* Series.round(k): NaN and the infinities stay what they are.
ColumnRound(x, k) == IF x.cls = "finite" THEN RoundedRate(x, k) ELSE x

\* np.where(den > 0, (num / den * 100).round(2), 0)
GuardedColumnRate(num, den) ==
    IF den > 0 THEN ColumnRound(ColumnRate(num, den), 2) ELSE Finite(0, 1)

\* The rate columns of create_facts_by_inst_year for the rows of one
\* institution: one group per year, the counts summed.
create_facts_by_inst_year(df) ==
    LET years == SortedYears({ df[i].year : i \in DOMAIN df })
        Group(y) ==
            LET rows == YearSlice(df, y)
                applicants == SumCol(rows, "applicants")
                admitted == SumCol(rows, "admissions")
                enrolled == SumCol(rows, "enrolled_total")
            IN  [year |-> y, applicants |-> applicants, admitted |-> admitted,
                 enrolled |-> enrolled,
                 admit_rate |-> GuardedColumnRate(admitted, applicants),
                 yield_rate |-> GuardedColumnRate(enrolled, admitted),
                 overall_conversion |-> GuardedColumnRate(enrolled, applicants),
                 leakage_stage1 |-> applicants - admitted,
                 leakage_stage2 |-> admitted - enrolled]
    IN  Return([k \in DOMAIN years |-> Group(years[k])])

\* calculate_trends_by_year: one row per year, sorted by year.
calculate_trends_by_year(df) ==
    LET years == SortedYears({ df[i].year : i \in DOMAIN df })
        Group(y) ==
            LET rows == YearSlice(df, y)
                applicants == SumCol(rows, "applicants")
                admissions == SumCol(rows, "admissions")
                enrolled_total == SumCol(rows, "enrolled_total")
            IN  [year |-> y, applicants |-> applicants, admissions |-> admissions,
                 enrolled_total |-> enrolled_total,
                 admit_rate |-> ColumnRound(ColumnRate(admissions, applicants), 1),
                 yield_rate |-> ColumnRound(ColumnRate(enrolled_total, admissions), 1),
                 overall_rate |-> ColumnRound(ColumnRate(enrolled_total, applicants), 1)]
    IN  Return([k \in DOMAIN years |-> Group(years[k])])

RatesArgs == [df : FunnelTables]

InitRates ==
    /\ pc = "call" /\ res = NoResult
    /\ \/ op = "funnel_leakage" /\ args \in FunnelCounts
       \/ op \in {"facts", "trends"} /\ args \in RatesArgs

FunnelLeakage ==
    /\ pc = "call" /\ op = "funnel_leakage"
    /\ res' = calculate_funnel_leakage(args.applicants, args.admissions, args.enrolled_total)
    /\ pc' = "done"
    /\ UNCHANGED <<op, args>>

CreateFacts ==
    /\ pc = "call" /\ op = "facts"
    /\ res' = create_facts_by_inst_year(args.df)
    /\ pc' = "done"
    /\ UNCHANGED <<op, args>>

TrendsByYear ==
    /\ pc = "call" /\ op = "trends"
    /\ res' = calculate_trends_by_year(args.df)
    /\ pc' = "done"
    /\ UNCHANGED <<op, args>>

SpecRates == InitRates /\ [][FunnelLeakage \/ CreateFacts \/ TrendsByYear]_vars

\* ------------------------------------------------------------------------
\* Rank and percentile (src/utils/metrics.py)
\* ------------------------------------------------------------------------

\* a < b on floats: false as soon as one side is NaN.
FloatLess(a, b) ==
    a.cls = "finite" /\ b.cls = "finite" /\ a.num * b.den < b.num * a.den

\* (sorted_vals > value).sum()
\* CountGreaterOrEqual: ">=" where the code has ">".
CountGreaterOrEqual(value, all_values) ==
    Cardinality({ i \in DOMAIN all_values : ~FloatLess(all_values[i], value)
                                             /\ all_values[i].cls = "finite" })

CountGreater(value, all_values) ==
    Cardinality({ i \in DOMAIN all_values : FloatLess(value, all_values[i]) })

\* (all_values < value).sum()
CountLess(value, all_values) ==
    Cardinality({ i \in DOMAIN all_values : FloatLess(all_values[i], value) })

\* calculate_rank_and_percentile.  rank is None or Some(r); percentile is
\* None or Some(p), p in tenths of a percent (round(x, 1)).
calculate_rank_and_percentile(value, all_values) ==
    IF Len(all_values) = 0 \/ IsNa(value)
    THEN Return([rank |-> None, total |-> 0, percentile |-> None])
    ELSE LET total == Len(all_values)
             rank == CountGreater(value, all_values) + 1
         IN  Return([rank |-> Some(rank), total |-> total,
                     percentile |-> Some(ScaledRound(Pct * CountLess(value, all_values),
                                                     total, 1))])

\* Largest metric value ranked.
MaxRankValue == 3

\* Most values of a ranked population.
MaxPopulation == 4

\* The values of a population: metric values, some of them missing.
PopulationValues == { Finite(n, 1) : n \in 1..MaxRankValue } \cup {FloatNaN}

\* The value ranked: one of the population's, one below them all, or missing.
RankedValues == PopulationValues \cup {Finite(0, 1), PyNone}

RankArgs ==
    [value : RankedValues,
     all_values : UNION { [1..k -> PopulationValues] : k \in 0..MaxPopulation }]

InitRank == pc = "call" /\ op = "rankAndPercentile" /\ args \in RankArgs /\ res = NoResult

RankAndPercentile ==
    /\ pc = "call" /\ op = "rankAndPercentile"
    /\ res' = calculate_rank_and_percentile(args.value, args.all_values)
    /\ pc' = "done"
    /\ UNCHANGED <<op, args>>

SpecRank == InitRank /\ [][RankAndPercentile]_vars

\* ------------------------------------------------------------------------
\* Similar institutions (src/utils/metrics.py)
\* ------------------------------------------------------------------------

\* feature_cols of find_similar_institutions_simple, in its order.
FeatureCols == <<"applicants", "admit_rate", "yield_rate", "enrolled_total", "diversity_index">>

\* calculate_institution_features: the rows of the year with their feature
\* columns.  A row carries its diversity_index, the value
\* calculate_institution_diversity gives it; no feature is missing.
calculate_institution_features(df, year) ==
    LET InYear(row) == row.year = year
    IN  SelectSeq(df, InYear)

\* sum of the squares of a column.
RECURSIVE SumSqCol(_, _)
SumSqCol(table, col) ==
    IF Len(table) = 0 THEN 0
    ELSE table[1][col] * table[1][col] + SumSqCol(Tail(table), col)

\* N * (N - 1) * std^2 of a column (std is the sample standard deviation):
\* positive exactly when std > 0; with one row std is NaN and the test fails.
ColumnSpread(features, col) ==
    Len(features) * SumSqCol(features, col)
        - SumCol(features, col) * SumCol(features, col)

\* The product of the spreads of the first i feature columns that are
\* standardized (std > 0), column skip left out.
RECURSIVE SpreadProduct(_, _, _)
SpreadProduct(features, skip, i) ==
    IF i = 0 THEN 1
    ELSE LET spread == ColumnSpread(features, FeatureCols[i])
         IN  (IF i # skip /\ spread > 0 THEN spread ELSE 1)
                * SpreadProduct(features, skip, i - 1)

\* The numerator of the squared distance over the first i columns: a column
\* with std > 0 adds ((x - t) / std)^2, any other column adds 0.
RECURSIVE DistanceNum(_, _, _, _)
DistanceNum(features, target_row, row, i) ==
    IF i = 0 THEN 0
    ELSE LET col == FeatureCols[i]
             diff == row[col] - target_row[col]
         IN  DistanceNum(features, target_row, row, i - 1)
               + (IF ColumnSpread(features, col) > 0
                  THEN diff * diff * SpreadProduct(features, i, Len(FeatureCols))
                  ELSE 0)

\* calc_distance, squared: the distance is the square root of this rational,
\* whose denominator is the same for every row of the frame.
DistanceSq(features, target_row, row) ==
    Finite(Len(features) * (Len(features) - 1)
              * DistanceNum(features, target_row, row, Len(FeatureCols)),
           SpreadProduct(features, 0, Len(FeatureCols)))

\* features[features['institution_name'] != target_institution]
\* CandidatesWithTarget: the target is not taken out.
CandidatesWithTarget(features, target_institution) == features

Candidates(features, target_institution) ==
    LET NotTarget(row) == row.institution_name # target_institution
    IN  SelectSeq(features, NotTarget)

\* similar.nsmallest(k, 'distance'): the k rows of least distance, least
\* first, ties in frame order (keep='first'); nothing when k <= 0.
NSmallest(table, k) ==
    LET Before(i) == Cardinality({ j \in DOMAIN table :
                        \/ table[j].distance_sq.num < table[i].distance_sq.num
                        \/ table[j].distance_sq.num = table[i].distance_sq.num /\ j < i })
        size == IF k <= 0 THEN 0 ELSE Min(k, Len(table))
    IN  [m \in 1..size |-> table[CHOOSE i \in DOMAIN table : Before(i) = m - 1]]

\* find_similar_institutions_simple.  The frame returned carries the squared
\* distance in place of the distance.
find_similar_institutions_simple(df, target_institution, year, k) ==
    LET features == calculate_institution_features(df, year)
        IsTarget(row) == row.institution_name = target_institution
        target_row == SelectSeq(features, IsTarget)[1]
        WithDistance(row) ==
            [institution_name |-> row.institution_name,
             distance_sq |-> DistanceSq(features, target_row, row),
             applicants |-> row.applicants, admit_rate |-> row.admit_rate,
             yield_rate |-> row.yield_rate, enrolled_total |-> row.enrolled_total,
             diversity_index |-> row.diversity_index]
        measured == [i \in DOMAIN features |-> WithDistance(features[i])]
    IN  IF Len(features) = 0 \/ target_institution \notin NamesOf(features)
        THEN Return(<< >>)
        ELSE Return(NSmallest(Candidates(measured, target_institution), k))

\* The default of k.
DefaultK == 15

\* Largest k asked of the similarity engine besides the default.
MaxK == 3

\* Feature values of a row: applicants, admit rate, yield rate, enrolled and
\* diversity index on small scales, two of the profiles differing in
\* applicants only.
FeatureProfiles ==
    { [applicants |-> 1, admit_rate |-> 2, yield_rate |-> 1, enrolled_total |-> 1, diversity_index |-> 0],
      [applicants |-> 2, admit_rate |-> 2, yield_rate |-> 1, enrolled_total |-> 1, diversity_index |-> 0],
      [applicants |-> 3, admit_rate |-> 1, yield_rate |-> 2, enrolled_total |-> 2, diversity_index |-> 1],
      [applicants |-> 0, admit_rate |-> 0, yield_rate |-> 3, enrolled_total |-> 0, diversity_index |-> 2] }

FeatureRowsOf(name) ==
    { [institution_name |-> name, year |-> y, applicants |-> p.applicants,
       admit_rate |-> p.admit_rate, yield_rate |-> p.yield_rate,
       enrolled_total |-> p.enrolled_total, diversity_index |-> p.diversity_index] :
        y \in Years, p \in FeatureProfiles }

SimilarCall(r1, r2, r3, t, k) ==
    [df |-> <<r1, r2, r3>>, target |-> t, year |-> 2023, k |-> k]

InitSimilar ==
    /\ pc = "call" /\ op = "similar" /\ res = NoResult
    /\ \E r1 \in FeatureRowsOf(Institutions[1]), r2 \in FeatureRowsOf(Institutions[2]),
          r3 \in FeatureRowsOf(Institutions[3]), t \in Targets, k \in (0..MaxK) \cup {DefaultK} :
            args = SimilarCall(r1, r2, r3, t, k)

FindSimilar ==
    /\ pc = "call" /\ op = "similar"
    /\ res' = find_similar_institutions_simple(args.df, args.target, args.year, args.k)
    /\ pc' = "done"
    /\ UNCHANGED <<op, args>>

SpecSimilar == InitSimilar /\ [][FindSimilar]_vars

\* ------------------------------------------------------------------------
\* Diversity index (src/utils/metrics.py)
\* ------------------------------------------------------------------------

\* The index is a float rounded to 4 decimals: Finite(n, IndexScale).
IndexScale == 10000

\* p >= 0 for a float that is not missing.
NonNegative(p) == (p.cls = "finite" /\ p.num >= 0) \/ (p.cls = "inf" /\ p.num = 1)

\* Greatest common divisor of two naturals.
RECURSIVE Gcd(_, _)
Gcd(a, b) == IF b = 0 THEN a ELSE Gcd(b, a % b)

\* Finite proportions on one denominator, as co-prime numerators: p / total
\* is the same quotient after a common factor is removed.  The denominators
\* are powers of ten, so the largest one is a multiple of every other.
RECURSIVE MaxDen(_)
MaxDen(props) ==
    IF props = <<>> THEN 1 ELSE Max(Head(props).den, MaxDen(Tail(props)))

RECURSIVE GcdAll(_)
GcdAll(nums) == IF nums = <<>> THEN 0 ELSE Gcd(Head(nums), GcdAll(Tail(nums)))

Numerators(props) ==
    LET D == MaxDen(props)
        scaled == [i \in 1..Len(props) |-> props[i].num * (D \div props[i].den)]
        g == GcdAll(scaled)
    IN  IF g = 0 THEN scaled ELSE [i \in 1..Len(props) |-> scaled[i] \div g]

RECURSIVE SumSeq(_)
SumSeq(s) == IF s = <<>> THEN 0 ELSE Head(s) + SumSeq(Tail(s))

RECURSIVE SumSquares(_)
SumSquares(s) == IF s = <<>> THEN 0 ELSE Head(s) * Head(s) + SumSquares(Tail(s))

\* calculate_diversity_index: Simpson's index 1 - sum(p_i^2) of the kept
\* proportions after division by their total.  An infinite proportion is
\* kept (it is not NaN and it is >= 0): the total is then infinite, inf / inf
\* is NaN and the rounded result is NaN.
calculate_diversity_index(proportions) ==
    LET valid_props == SelectSeq(proportions, LAMBDA p : ~IsNa(p) /\ NonNegative(p))
        infinite == \E i \in 1..Len(valid_props) : valid_props[i].cls = "inf"
        nums == Numerators(valid_props)
        total == SumSeq(nums)
    IN  IF valid_props = <<>> THEN Finite(0, IndexScale)
        ELSE IF infinite THEN FloatNaN
        ELSE IF total = 0 THEN Finite(0, IndexScale)
        ELSE Finite(ScaledRound(total * total - SumSquares(nums), total * total, 4), IndexScale)

\* Demographic share columns, in the order they are read.
DemoCols == <<"pct_hispanic", "pct_white", "pct_black", "pct_asian", "pct_other", "pct_nonresident">>

\* val / 100 if val > 1 else val.
ToProportion(val) ==
    IF val.cls = "finite" /\ val.num > val.den THEN Finite(val.num, val.den * Pct)
    ELSE val

\* calculate_institution_diversity: the index of the row's demographic
\* shares that are present and not missing, each one read as a percentage
\* when it is above 1 and as a fraction otherwise.
calculate_institution_diversity(row) ==
    LET present == SelectSeq(DemoCols, LAMBDA c : c \in DOMAIN row /\ ~IsNa(row[c]))
        proportions == [i \in 1..Len(present) |-> ToProportion(row[present[i]])]
    IN  calculate_diversity_index(proportions)

\* Largest number of groups in a call.
MaxGroups == 3

\* Proportions of a call, in hundredths: missing, infinite, negative, and the
\* shares 0, 0.25, 0.5 and 1.
ProportionValues ==
    {FloatNaN, PyNone, FloatInf(1), FloatInf(0 - 1), Finite(0 - 25, Pct),
     Finite(0, Pct), Finite(25, Pct), Finite(50, Pct), Finite(Pct, Pct)}

\* Shares of a row, in hundredths: missing, the fractions 0, 0.01, 0.49, 0.5
\* and 1, and the percentages 1 (the same number as the fraction 1), 49, 50
\* and 100.
ShareValues ==
    {FloatNaN, Finite(0, Pct), Finite(1, Pct), Finite(49, Pct), Finite(50, Pct),
     Finite(Pct, Pct), Finite(49 * Pct, Pct), Finite(50 * Pct, Pct), Finite(Pct * Pct, Pct)}

InitDiversity ==
    /\ pc = "call"
    /\ res = NoResult
    /\ \/ /\ op = "diversity_index"
          /\ \E len \in 0..MaxGroups : \E proportions \in [1..len -> ProportionValues] :
                args = [proportions |-> proportions]
       \/ /\ op = "institution_diversity"
          /\ \E len \in 0..MaxGroups : \E shares \in [1..len -> ShareValues] :
                args = [row |-> [c \in {DemoCols[i] : i \in 1..len} |->
                                   shares[CHOOSE i \in 1..len : DemoCols[i] = c]]]

DiversityIndex ==
    /\ pc = "call" /\ op = "diversity_index"
    /\ res' = Return(calculate_diversity_index(args.proportions))
    /\ pc' = "done"
    /\ UNCHANGED <<op, args>>

InstitutionDiversity ==
    /\ pc = "call" /\ op = "institution_diversity"
    /\ res' = Return(calculate_institution_diversity(args.row))
    /\ pc' = "done"
    /\ UNCHANGED <<op, args>>

SpecDiversity == InitDiversity /\ [][DiversityIndex \/ InstitutionDiversity]_vars

\* ------------------------------------------------------------------------
\* Peer statistics (src/utils/data_model.py)
\* ------------------------------------------------------------------------

\* A statistic rounded to 2 decimals, from its hundredths.
Hundredths(h) == Finite(h, Pct)

\* peer_group[metric].dropna(): the values of the column that are not
\* missing, in row order.  The values of the model are whole numbers.
DropNa(peer_group, metric) ==
    LET kept == SelectSeq(peer_group, LAMBDA row : ~IsNa(row[metric]))
    IN  [i \in 1..Len(kept) |-> kept[i][metric].num]

\* round(sqrt(a / b)) for a >= 0 and b > 0: the L with
\* (L - 1/2)^2 <= a / b < (L + 1/2)^2.
RoundedRoot(a, b) ==
    CHOOSE L \in 0..a :
        /\ L = 0 \/ (2 * L - 1) * (2 * L - 1) * b <= 4 * a
        /\ 4 * a < (2 * L + 1) * (2 * L + 1) * b

\* round(values.std(), 2): the sample standard deviation (n - 1 in the
\* denominator), NaN for a single value.
StdOf(values) ==
    LET n == Len(values)
        V == n * SumSquares(values) - SumSeq(values) * SumSeq(values)
    IN  IF n < 2 THEN FloatNaN
        ELSE Hundredths(RoundedRoot(Pct * Pct * V, n * (n - 1)))

\* round(values.quantile(q / 100), 2): linear interpolation between the two
\* neighbours of position q * (n - 1) / 100 in the sorted values.
QuantileOf(values, q) ==
    LET sorted == SortSeq(values, LAMBDA a, b : a < b)
        P == q * (Len(values) - 1)
        lo == P \div Pct + 1
        frac == P % Pct
    IN  IF frac = 0 THEN Hundredths(Pct * sorted[lo])
        ELSE Hundredths(Pct * sorted[lo] + frac * (sorted[lo + 1] - sorted[lo]))

\* PeerStatsWithMissing: statistics over every row, a missing value counted
\* as 0.
PeerStatsWithMissing(peer_group, metric) ==
    IF peer_group = <<>> \/ metric \notin DOMAIN peer_group[1] THEN EmptyDict
    ELSE LET values == [i \in 1..Len(peer_group) |->
                           IF IsNa(peer_group[i][metric]) THEN 0 ELSE peer_group[i][metric].num]
             sorted == SortSeq(values, LAMBDA a, b : a < b)
         IN  [mean   |-> Hundredths(ScaledRound(SumSeq(values), Len(values), 2)),
              median |-> QuantileOf(values, 50),
              std    |-> StdOf(values),
              min    |-> Hundredths(Pct * sorted[1]),
              max    |-> Hundredths(Pct * sorted[Len(sorted)]),
              p10    |-> QuantileOf(values, 10),
              p25    |-> QuantileOf(values, 25),
              p50    |-> QuantileOf(values, 50),
              p75    |-> QuantileOf(values, 75),
              p90    |-> QuantileOf(values, 90),
              count  |-> Len(values)]

\* calculate_peer_statistics: {} for an empty peer group, an absent column
\* or a column of missing values; otherwise the statistics of the values that
\* are not missing, each rounded to 2 decimals, and their count.
calculate_peer_statistics(peer_group, metric) ==
    IF peer_group = <<>> \/ metric \notin DOMAIN peer_group[1] THEN EmptyDict
    ELSE LET values == DropNa(peer_group, metric)
             sorted == SortSeq(values, LAMBDA a, b : a < b)
         IN  IF values = <<>> THEN EmptyDict
             ELSE [mean   |-> Hundredths(ScaledRound(SumSeq(values), Len(values), 2)),
                   median |-> QuantileOf(values, 50),
                   std    |-> StdOf(values),
                   min    |-> Hundredths(Pct * sorted[1]),
                   max    |-> Hundredths(Pct * sorted[Len(sorted)]),
                   p10    |-> QuantileOf(values, 10),
                   p25    |-> QuantileOf(values, 25),
                   p50    |-> QuantileOf(values, 50),
                   p75    |-> QuantileOf(values, 75),
                   p90    |-> QuantileOf(values, 90),
                   count  |-> Len(values)]

\* Largest number of rows of a peer group.
MaxPeers == 4

\* Values of the metric: missing, 1, 2 and 4.
PeerMetricValues == {FloatNaN, Finite(1, 1), Finite(2, 1), Finite(4, 1)}

\* The metric asked for: a column of the peer group, or one it does not have.
PeerMetrics == {"yield_rate", "retention_rate"}

InitPeerStats ==
    /\ pc = "call" /\ op = "peer_statistics" /\ res = NoResult
    /\ \E len \in 0..MaxPeers : \E column \in [1..len -> PeerMetricValues] : \E metric \in PeerMetrics :
          args = [peer_group |-> [i \in 1..len |->
                                    [institution_name |-> "Peer" \o ToString(i),
                                     yield_rate |-> column[i]]],
                  metric |-> metric]

PeerStatistics ==
    /\ pc = "call" /\ op = "peer_statistics"
    /\ res' = Return(calculate_peer_statistics(args.peer_group, args.metric))
    /\ pc' = "done"
    /\ UNCHANGED <<op, args>>

SpecPeerStats == InitPeerStats /\ [][PeerStatistics]_vars

\* ------------------------------------------------------------------------
\* Wilson score interval (src/utils/metrics.py)
\* ------------------------------------------------------------------------

\* z = 1.96 = ZNum / ZDen, the value used at the default confidence of 0.95
\* (the only one the application asks for).
ZNum == 49
ZDen == 25

\* With p = successes / total and z = ZNum / ZDen the code's
\*   center = (p + z^2 / (2 total)) / (1 + z^2 / total)
\*   margin = z * sqrt((p (1 - p) + z^2 / (4 total)) / total) / (1 + z^2 / total)
\* are center = WilsonCenterNum / WilsonDen and
\* margin = ZNum * sqrt(WilsonRadicand) / WilsonDen.
WilsonDen(total) == 2 * total * (ZDen * ZDen * total + ZNum * ZNum)

WilsonCenterNum(successes, total) == total * (2 * ZDen * ZDen * successes + ZNum * ZNum)

\* RadicandOfNormalApproximation: p (1 - p) / total alone under the root, the
\* naive normal approximation.
RadicandOfNormalApproximation(successes, total) ==
    total * (4 * ZDen * ZDen * successes * (total - successes))

WilsonRadicand(successes, total) ==
    total * (4 * ZDen * ZDen * successes * (total - successes) + ZNum * ZNum * total)

\* Decimal digits kept of the square root.
RootDigits == 4

\* floor(sqrt(R * 100^k)) and what is left of R * 100^k, one decimal digit
\* at a time.
RECURSIVE RootRem(_, _)
RootRem(R, k) ==
    IF k = 0
    THEN LET r == CHOOSE r \in 0..R : r * r <= R /\ R < (r + 1) * (r + 1)
         IN  [root |-> r, rem |-> R - r * r]
    ELSE LET prev == RootRem(R, k - 1)
             c == 100 * prev.rem
             p == prev.root
             x == CHOOSE x \in 0..9 :
                     /\ x * (20 * p + x) <= c
                     /\ (x + 1) * (20 * p + x + 1) > c
         IN  [root |-> 10 * p + x, rem |-> c - x * (20 * p + x)]

\* wilson_interval_simple at confidence 0.95: (lower, upper) in hundredths
\* of a percent, (0, 0) for total = 0.  The square root is taken to
\* RootDigits decimals.
wilson_interval_simple(successes, total) ==
    IF total = 0 THEN [lower |-> 0, upper |-> 0]
    ELSE LET scale == Pow10(RootDigits)
             margin == ZNum * RootRem(WilsonRadicand(successes, total), RootDigits).root
             center == WilsonCenterNum(successes, total) * scale
             one == WilsonDen(total) * scale
         IN  [lower |-> RoundHalfEven(Max(0, center - margin), WilsonDen(total)),
              upper |-> RoundHalfEven(Min(one, center + margin), WilsonDen(total))]

\* Largest total of a call.
MaxTotal == 9

InitWilson ==
    /\ pc = "call" /\ op = "wilson_interval" /\ res = NoResult
    /\ \E total \in 0..MaxTotal : \E successes \in 0..total :
          args = [successes |-> successes, total |-> total]

WilsonInterval ==
    /\ pc = "call" /\ op = "wilson_interval"
    /\ res' = Return(wilson_interval_simple(args.successes, args.total))
    /\ pc' = "done"
    /\ UNCHANGED <<op, args>>

SpecWilson == InitWilson /\ [][WilsonInterval]_vars

\* ------------------------------------------------------------------------
\* The engine as a whole: any one call
\* ------------------------------------------------------------------------

Init ==
    \/ InitPeer \/ InitGoal \/ InitSimulate \/ InitDecompose \/ InitInsights
    \/ InitDelta \/ InitYoY \/ InitRates \/ InitRank \/ InitSimilar
    \/ InitDiversity \/ InitPeerStats \/ InitWilson

Next ==
    \/ GetPeerGroup \/ PagePeerGroup \/ GoalSeek \/ Simulate \/ Decompose \/ GenerateInsights
    \/ CountDelta \/ RateDelta \/ GetYoYMetrics \/ FunnelLeakage \/ CreateFacts
    \/ TrendsByYear \/ RankAndPercentile \/ FindSimilar
    \/ DiversityIndex \/ InstitutionDiversity \/ PeerStatistics \/ WilsonInterval

Spec == Init /\ [][Next]_vars

\* A call has returned or raised.
Done(name) == pc = "done" /\ op = name

\* ------------------------------------------------------------------------
\* Properties
\* ------------------------------------------------------------------------

\* The target has a row for the year asked for.
TargetHasRow ==
    \E i \in DOMAIN args.facts :
        args.facts[i].institution_name = args.target /\ args.facts[i].year = args.year

\* C1: for every mode and every n (here n >= 1), when the target has a row
\* for the requested year, the peer group a selector returns contains the
\* target's row, also when the target is outside the n largest or its
\* region, state or size is missing.
C1_TargetInPeerGroup ==
    (pc = "done" /\ op \in {"get_peer_group", "peer_group"} /\ TargetHasRow /\ args.n >= 1)
        => (res.kind = "ok" /\ args.target \in NamesOf(res.value))

\* C2: goal seeking never ends with an error: for every base_applicants >= 0,
\* rates in [0, 100] and target it returns goal_met and a recommendation list.
C2_GoalSeekNeverRaises ==
    Done("goalSeek")
        => (res.kind = "ok" /\ {"goal_met", "recommendations"} \subseteq DOMAIN res.value)

\* C3: simulate returns delta_enrolled_pct = None whenever base_enrolled is 0
\* (base applicants, admit rate or yield rate is 0), whatever the deltas.
C3_DeltaPctNoneOnZeroBase ==
    (Done("simulate")
        /\ args.base_applicants * args.base_admit_rate * args.base_yield_rate = 0)
        => res.value.delta_enrolled_pct = None

\* The returned effects and residual, summed, minus the returned delta.
DecompositionGap ==
    res.value.effect_applicants + res.value.effect_admit_rate
        + res.value.effect_yield + res.value.residual - res.value.delta_enrolled

C5_ZeroDeltasReproduceBase ==
    (Done("simulate") /\ args.applicants_change_pct = 0
        /\ args.admit_rate_change_pp = 0 /\ args.yield_rate_change_pp = 0)
        => /\ res.value.proj_enrolled = res.value.base_enrolled
           /\ res.value.proj_admit_rate = res.value.base_admit_rate
           /\ res.value.proj_yield_rate = res.value.base_yield_rate

\* C5's case: a zero-delta simulation of a funnel that enrolls 20.
C5_Witness ==
    /\ Done("simulate") /\ args.applicants_change_pct = 0
    /\ args.admit_rate_change_pp = 0 /\ args.yield_rate_change_pp = 0
    /\ res.value.base_enrolled = 20 /\ res.value.proj_enrolled = 20

\* Goal seeking's cases, from the arguments alone (numerators over 10^4).
GoalGapOpen ==
    args.enrollment_goal * 10000
        > args.base_applicants * args.base_admit_rate * args.base_yield_rate

YieldAloneCloses ==
    args.base_applicants * args.base_admit_rate * Min(100, args.base_yield_rate + 10)
        >= args.enrollment_goal * 10000

YieldAndAdmitClose ==
    args.base_applicants * Min(100, args.base_admit_rate + 10)
            * Min(100, args.base_yield_rate + 10)
        >= args.enrollment_goal * 10000

\* The applicants growth needed with both rates at their maxima is at most 30%.
ApplicantsGrowthWithin30 ==
    LET both == args.base_applicants * Min(100, args.base_admit_rate + 10)
                    * Min(100, args.base_yield_rate + 10)
    IN  args.base_applicants > 0
        /\ (args.enrollment_goal * 10000 - both) * 100 <= 30 * both

\* The shape C6 gives the recommendation list recs.
PriorityOrdered(recs) ==
    LET last == recs[Len(recs)]
        levers == { recs[i].lever : i \in DOMAIN recs }
    IN  /\ YieldAloneCloses
            => Len(recs) = 1 /\ recs[1].lever = "yield_rate" /\ recs[1].priority = 1
        /\ (~YieldAloneCloses /\ YieldAndAdmitClose)
            => Len(recs) >= 1 /\ last.lever = "admit_rate" /\ last.priority = 2
               /\ "applicants" \notin levers
        /\ (~YieldAloneCloses /\ ~YieldAndAdmitClose)
            => Len(recs) >= 1 /\ last.lever = "applicants" /\ last.priority = 3
        /\ \A i, j \in DOMAIN recs : i < j => recs[i].priority < recs[j].priority

\* C6: the recommendations follow the priority order yield_rate (1),
\* admit_rate (2), applicants (3): one yield_rate recommendation when yield
\* alone closes the gap; else a list ending with admit_rate and without
\* applicants when yield and admit rate close it; else a list ending with the
\* applicants recommendation; priorities strictly increasing.
C6_RecommendationsInPriorityOrder ==
    (Done("goalSeek") /\ GoalGapOpen)
        => (res.kind = "ok" /\ PriorityOrdered(res.value.recommendations))

\* C7: when the maxima of yield and admit rate do not reach the target,
\* goal_met is true if and only if the applicants increase required at those
\* maxima is at most 30%.
C7_GoalMetIffWithin30 ==
    (Done("goalSeek") /\ GoalGapOpen /\ ~YieldAndAdmitClose)
        => (res.kind = "ok" /\ res.value.goal_met = ApplicantsGrowthWithin30)

\* C8: a target that does not exceed the base enrolled value gives
\* goal_met = true and an empty recommendation list.
C8_TargetAlreadyMet ==
    (Done("goalSeek") /\ ~GoalGapOpen)
        => (res.kind = "ok" /\ res.value.goal_met = TRUE
            /\ res.value.recommendations = << >>)

\* C8's case: a funnel enrolling 20 asked for exactly 20.
C8_Witness ==
    /\ Done("goalSeek") /\ args.base_applicants = 100 /\ args.base_admit_rate = 50
    /\ args.base_yield_rate = 40 /\ args.enrollment_goal = 20
    /\ res.kind = "ok" /\ res.value.recommendations = << >>

\* The percentile key of metric's summary is there to compare against.
HasPercentile(metric, key) ==
    /\ metric \in DOMAIN args.institution_data
    /\ metric \in DOMAIN args.peer_percentiles
    /\ key \in DOMAIN args.peer_percentiles[metric]

\* The YoY delta of enrolled handed to the generator: None when the YoY
\* metrics are empty or hold no delta.
GivenDelta == Get(args.yoy_metrics, "delta_enrolled", None)

\* The insights returned with this type and metric.
InsightsOf(type, metric) ==
    { i \in DOMAIN res.value : res.value[i].type = type /\ res.value[i].metric = metric }

\* C9: a rule whose required inputs are absent contributes no insight and
\* raises no error: a metric missing from the facts or from the peer
\* percentiles, a p25 or p75 missing from the summary, YoY metrics that are
\* empty or have delta_enrolled = None.  Read branch by branch: no insight
\* compares against a percentile the summary does not hold.
C9_AbsentInputsSkipRule ==
    Done("insights")
        => /\ res.kind = "ok"
           /\ ~HasPercentile("yield_rate", "p75") => InsightsOf("success", "yield_rate") = {}
           /\ ~HasPercentile("yield_rate", "p25") => InsightsOf("warning", "yield_rate") = {}
           /\ ~HasPercentile("admit_rate", "p25") => InsightsOf("info", "admit_rate") = {}
           /\ ~HasPercentile("diversity_index", "p75") => InsightsOf("info", "diversity") = {}
           /\ GivenDelta = None
                => InsightsOf("danger", "enrolled") \cup InsightsOf("success", "enrolled") = {}

\* The primary driver handed to the generator, "" when there is none.
GivenDriver == Get(args.yoy_metrics, "primary_driver", "")

\* C10: a danger insight for 'enrolled' exactly when the YoY enrolled delta is
\* below -5%, a success insight exactly when it is above 10%; the danger
\* insight's detail names the driver supplied, and is the insufficient-data
\* message when the driver is absent, empty or 'unknown'.
C10_EnrolledInsightThresholds ==
    Done("insights")
        => /\ InsightsOf("danger", "enrolled") # {}
                <=> (GivenDelta # None /\ GivenDelta[1] < -500)
           /\ InsightsOf("success", "enrolled") # {}
                <=> (GivenDelta # None /\ GivenDelta[1] > 1000)
           /\ \A i \in InsightsOf("danger", "enrolled") :
                res.value[i].detail =
                    IF GivenDriver = "yield_rate_decrease"
                    THEN "Primary driver: Yield Rate Decrease"
                    ELSE "Insufficient data to compute drivers for this institution"

\* C10's case: a decline whose driver is unknown, reported with the
\* insufficient-data message.
C10_Witness ==
    /\ Done("insights") /\ GivenDelta = Some(-501) /\ GivenDriver = "unknown"
    /\ \E i \in InsightsOf("danger", "enrolled") :
         res.value[i].detail = "Insufficient data to compute drivers for this institution"


\* The position of the rule that emits insights about metric.
RuleRank(metric) ==
    CASE metric = "yield_rate" -> 1
      [] metric = "admit_rate" -> 2
      [] metric = "enrolled" -> 3
      [] metric = "diversity" -> 4
      [] OTHER -> 0

\* C11: the generator returns at most 6 insights, listed in rule order
\* (yield_rate, admit_rate, enrolled, diversity), and at most one of them
\* comes from the yield rule.
C11_AtMostSixInRuleOrder ==
    Done("insights")
        => /\ res.kind = "ok"
           /\ Len(res.value) <= 6
           /\ \A i, j \in DOMAIN res.value :
                i < j => RuleRank(res.value[i].metric) <= RuleRank(res.value[j].metric)
           /\ \A i \in DOMAIN res.value : RuleRank(res.value[i].metric) # 0
           /\ Cardinality({ i \in DOMAIN res.value : res.value[i].metric = "yield_rate" }) <= 1

\* C11's case: every rule fires, the yield rule with its warning branch while
\* the p75 it defaults to lies below the value.
C11_Witness ==
    /\ Done("insights") /\ Len(res.value) = 4
    /\ res.value[1].metric = "yield_rate" /\ res.value[2].metric = "admit_rate"
    /\ res.value[3].metric = "enrolled" /\ res.value[4].metric = "diversity"


\* C12: countDelta returns None, not 0 and not an error, whenever previous is
\* 0, missing or non-finite (NaN or infinite), whatever current is; for any
\* other previous and a finite current it returns
\* (current - previous) / previous * 100.
C12_CountDeltaNoneOrFormula ==
    Done("countDelta")
        => IF args.previous.cls # "finite" \/ args.previous.num = 0
           THEN res = Return(PyNone)
           ELSE args.current.cls = "finite"
                => /\ res.kind = "ok" /\ res.value.cls = "finite"
                   /\ res.value.num * args.previous.num
                        = 100 * (args.current.num - args.previous.num) * res.value.den


\* The rows of the table handed to yoyMetrics that belong to year y.
RowsOfYear(y) == { i \in DOMAIN args.df : args.df[i].year = y }

\* The sum of column col over the rows of year y, row by row.
RECURSIVE YearTotal(_, _, _)
YearTotal(y, col, i) ==
    IF i = 0 THEN 0
    ELSE YearTotal(y, col, i - 1) + (IF args.df[i].year = y THEN args.df[i][col] ELSE 0)

\* rate (hundredths of a percent) is num / den * 100 rounded to two decimals,
\* and 0 when den is 0.
IsRateOf(rate, num, den) ==
    IF den = 0 THEN rate = 0 ELSE 2 * Abs(rate * den - 10000 * num) <= den

\* The delta entries of the YoY struct.
DeltaKeys ==
    {"delta_applicants", "delta_admitted", "delta_enrolled", "delta_admit_rate",
     "delta_yield_rate"}

\* C13: for a year that has rows, yoyMetrics returns the admit and yield
\* rates of the summed counts of all the year's rows; and when no row exists
\* for year - 1, no delta holds a value (each is None) and prev_year is None.
C13_AggregateRatesAndNoPrevYear ==
    Done("yoyMetrics")
        => /\ res.kind = "ok"
           /\ RowsOfYear(args.year) # {}
                => LET n == Len(args.df)
                       applicants == YearTotal(args.year, "applicants", n)
                       admitted == YearTotal(args.year, "admissions", n)
                       enrolled == YearTotal(args.year, "enrolled_total", n)
                   IN  /\ res.value.applicants = applicants
                       /\ res.value.admitted = admitted
                       /\ res.value.enrolled = enrolled
                       /\ IsRateOf(res.value.admit_rate, admitted, applicants)
                       /\ IsRateOf(res.value.yield_rate, enrolled, admitted)
           /\ RowsOfYear(args.year - 1) = {}
                => /\ \A k \in DeltaKeys : Get(res.value, k, None) = None
                   /\ Get(res.value, "prev_year", None) = None

\* C13's case: two rows of the year with admit rates 50% and 25% whose
\* aggregate is 33.33%, and no row for the year before.
C13_Witness ==
    /\ Done("yoyMetrics") /\ RowsOfYear(args.year - 1) = {}
    /\ Cardinality(RowsOfYear(args.year)) = 2
    /\ res.value.applicants = 30 /\ res.value.admit_rate = 3333
    /\ res.value.prev_year = None /\ res.value.delta_enrolled = None


\* rate is a finite number, and 0 when its denominator den is 0.
RateIsSafe(rate, den) == rate.cls = "finite" /\ (den = 0 => rate.num = 0)

\* C14: every derived rate (selection_rate, yield_rate, overall_conversion of
\* the funnel leakage; admit_rate, yield_rate, overall_conversion of the
\* facts table; the per-year trend rates) is 0 when its denominator is 0, and
\* for non-negative counts no rate computation raises or gives NaN or an
\* infinity.
C14_RatesZeroOnZeroDenominator ==
    /\ Done("funnel_leakage")
         => /\ res.kind = "ok"
            /\ RateIsSafe(res.value.selection_rate, args.applicants)
            /\ RateIsSafe(res.value.yield_rate, args.admissions)
            /\ RateIsSafe(res.value.overall_conversion, args.applicants)
    /\ Done("facts")
         => /\ res.kind = "ok"
            /\ \A k \in DOMAIN res.value :
                 /\ RateIsSafe(res.value[k].admit_rate, res.value[k].applicants)
                 /\ RateIsSafe(res.value[k].yield_rate, res.value[k].admitted)
                 /\ RateIsSafe(res.value[k].overall_conversion, res.value[k].applicants)
    /\ Done("trends")
         => /\ res.kind = "ok"
            /\ \A k \in DOMAIN res.value :
                 /\ RateIsSafe(res.value[k].admit_rate, res.value[k].applicants)
                 /\ RateIsSafe(res.value[k].yield_rate, res.value[k].admissions)
                 /\ RateIsSafe(res.value[k].overall_rate, res.value[k].applicants)


\* The row belongs to the year asked of the selector.
IsRequestedYear(row) == row.year = args.year

\* C15: when the target has no row for the requested year, get_peer_group
\* returns the whole slice of that year, rows and order untouched, whatever
\* the mode; the table it returns is then empty only when the year has no row.
C15_MissingTargetReturnsYearSlice ==
    (Done("get_peer_group") /\ ~TargetHasRow)
        => /\ res.kind = "ok"
           /\ res.value = SelectSeq(args.facts, IsRequestedYear)
           /\ res.value = << >> <=> \A i \in DOMAIN args.facts : args.facts[i].year # args.year

\* C15's case: a target whose only row is of another year, asked for its
\* state's peers, gets both rows of the requested year.
C15_Witness ==
    /\ Done("get_peer_group") /\ ~TargetHasRow /\ args.target # ""
    /\ args.peer_type = "same_state" /\ Len(res.value) = 2


\* The population values strictly greater, and strictly less, than the value
\* ranked (a missing population value is neither).
StrictlyGreater ==
    { i \in DOMAIN args.all_values :
        args.all_values[i].cls = "finite" /\ args.all_values[i].num > args.value.num }

StrictlyLess ==
    { i \in DOMAIN args.all_values :
        args.all_values[i].cls = "finite" /\ args.all_values[i].num < args.value.num }

\* A value that is not missing is ranked in a population that is not empty.
RankDefined ==
    Done("rankAndPercentile") /\ args.value.cls = "finite" /\ Len(args.all_values) > 0

\* C16 as stated: rank = 1 + the number of population values strictly
\* greater than the value, total = the population size, and percentile =
\* 100 * (number of values strictly less) / total, exactly (percentile is in
\* tenths of a percent).
C16_RankAndExactPercentile ==
    RankDefined
        => /\ res.kind = "ok"
           /\ res.value.rank = Some(1 + Cardinality(StrictlyGreater))
           /\ res.value.total = Len(args.all_values)
           /\ res.value.percentile # None
           /\ res.value.percentile[1] * res.value.total = 1000 * Cardinality(StrictlyLess)

\* C16 as amended: rank and total as stated; percentile is
\* 100 * (number of values strictly less) / total rounded to one decimal.
C16_RankAndRoundedPercentile ==
    RankDefined
        => /\ res.kind = "ok"
           /\ res.value.rank = Some(1 + Cardinality(StrictlyGreater))
           /\ res.value.total = Len(args.all_values)
           /\ res.value.percentile # None
           /\ 2 * Abs(res.value.percentile[1] * res.value.total
                        - 1000 * Cardinality(StrictlyLess)) <= res.value.total

\* C16's case: one of three values below the value ranked, a tie at the
\* top: rank 1 and the percentile 33.3.
C16_Witness ==
    /\ RankDefined /\ Len(args.all_values) = 3
    /\ Cardinality(StrictlyLess) = 1 /\ Cardinality(StrictlyGreater) = 0
    /\ res.value.rank = Some(1) /\ res.value.percentile = Some(333)


\* The rows of the year asked of the similarity engine, and the target's.
Population == calculate_institution_features(args.df, args.year)

TargetInPopulation == args.target \in NamesOf(Population)

\* The squared distance from the target of the population's row i.
DistanceOf(i) ==
    LET IsTarget(row) == row.institution_name = args.target
    IN  DistanceSq(Population, SelectSeq(Population, IsTarget)[1], Population[i]).num

\* C17: for a target present in the year's population of size N and k >= 1,
\* the similarity engine returns exactly min(k, N - 1) candidates, none of
\* them the target, no institution twice, in ascending order of distance, and
\* no candidate left out is closer to the target than a returned one.
C17_NearestCandidates ==
    (Done("similar") /\ TargetInPopulation /\ args.k >= 1)
        => /\ res.kind = "ok"
           /\ Len(res.value) = Min(args.k, Len(Population) - 1)
           /\ args.target \notin NamesOf(res.value)
           /\ NamesOf(res.value) \subseteq NamesOf(Population)
           /\ Cardinality(NamesOf(res.value)) = Len(res.value)
           /\ \A i, j \in DOMAIN res.value :
                i < j => res.value[i].distance_sq.num <= res.value[j].distance_sq.num
           /\ \A i \in DOMAIN Population :
                Population[i].institution_name \notin NamesOf(res.value) \cup {args.target}
                    => \A j \in DOMAIN res.value :
                         res.value[j].distance_sq.num <= DistanceOf(i)
           /\ \A j \in DOMAIN res.value :
                \E i \in DOMAIN Population :
                    /\ Population[i].institution_name = res.value[j].institution_name
                    /\ res.value[j].distance_sq.num = DistanceOf(i)

\* C17's case: of two candidates at different distances, k = 1 returns the
\* nearer one, which comes second in the table.
C17_Witness ==
    /\ Done("similar") /\ args.target = "Alpha" /\ args.k = 1
    /\ Len(Population) = 3 /\ Len(res.value) = 1
    /\ res.value[1].institution_name = "Gamma"
    /\ DistanceOf(3) < DistanceOf(2)


\* C18: invalid input is rejected with an error at the call boundary: the
\* similarity engine called with k <= 0 for a target of the population does
\* not produce a result, it fails.
C18_NonPositiveKRejected ==
    (Done("similar") /\ TargetInPopulation /\ args.k <= 0) => res.kind = "error"


\* The three effects of the decomposition asked for, unrounded (numerators
\* over 10^4), by the name the driver gives them.
ExactEffects ==
    LET r0 == NormalizeRate(args.admit_rate_base)
        y0 == NormalizeRate(args.yield_rate_base)
        r1 == NormalizeRate(args.admit_rate_compare)
        y1 == NormalizeRate(args.yield_rate_compare)
    IN  [applicants |-> (args.applicants_compare - args.applicants_base) * r0 * y0,
         admit_rate |-> args.applicants_compare * (r1 - r0) * y0,
         yield_rate |-> args.applicants_compare * r1 * (y1 - y0)]

\* Base and compare differ in applicants only.
OnlyApplicantsDiffer ==
    /\ args.applicants_compare # args.applicants_base
    /\ args.admit_rate_compare = args.admit_rate_base
    /\ args.yield_rate_compare = args.yield_rate_base

\* C19: primary_driver names an effect whose absolute magnitude no other
\* effect exceeds, followed by '_increase' when that effect is positive and
\* '_decrease' when it is negative; when only applicants differ between base
\* and compare, the driver starts with 'applicants'.
C19_PrimaryDriverIsLargestEffect ==
    Done("decompose")
        => /\ res.kind = "ok"
           /\ \E name \in DOMAIN ExactEffects :
                /\ \A other \in DOMAIN ExactEffects :
                     Abs(ExactEffects[name]) >= Abs(ExactEffects[other])
                /\ res.value.primary_driver \in {name \o "_increase", name \o "_decrease"}
                /\ ExactEffects[name] > 0 => res.value.primary_driver = name \o "_increase"
                /\ ExactEffects[name] < 0 => res.value.primary_driver = name \o "_decrease"
           /\ OnlyApplicantsDiffer
                => res.value.primary_driver \in {"applicants_increase", "applicants_decrease"}

\* C19's case: applicants grow from 1000 to 1100 at unchanged rates of 50%
\* and 40%, and the driver is the applicants increase.
C19_Witness ==
    /\ Done("decompose") /\ OnlyApplicantsDiffer
    /\ args.applicants_base = 1000 /\ args.applicants_compare = 1100
    /\ args.admit_rate_base = 5000 /\ args.yield_rate_base = 4000
    /\ res.value.effect_applicants = 20
    /\ res.value.primary_driver = "applicants_increase"


\* The rate (in hundredths) is a whole percentage of the valid range.
IsWholePercentage(rate) == rate % Pct = 0 /\ rate <= Pct * Pct

\* The four rates of the decomposition asked for are whole percentages.
RatesArePercentages ==
    /\ IsWholePercentage(args.admit_rate_base) /\ IsWholePercentage(args.yield_rate_base)
    /\ IsWholePercentage(args.admit_rate_compare) /\ IsWholePercentage(args.yield_rate_compare)

\* C20: the decomposition of rates given as percentages (0-100) is the
\* decomposition of the same rates given as fractions (0-1): same effects,
\* delta and primary driver, for every percentage, 1% included.
C20_PercentagesAndFractionsAgree ==
    (Done("decompose") /\ RatesArePercentages)
        => res = decompose_enrolled_variation(
                     args.applicants_base, args.admit_rate_base \div Pct,
                     args.yield_rate_base \div Pct, args.applicants_compare,
                     args.admit_rate_compare \div Pct, args.yield_rate_compare \div Pct)


\* The compare period is the base period.
CompareEqualsBase ==
    /\ args.applicants_compare = args.applicants_base
    /\ args.admit_rate_compare = args.admit_rate_base
    /\ args.yield_rate_compare = args.yield_rate_base

\* C21: when the compare period equals the base period (same applicants,
\* admit rate and yield rate), the decomposition returns delta_enrolled = 0,
\* the three effects 0 and the residual 0.
C21_NoChangeGivesZeroEffects ==
    (Done("decompose") /\ CompareEqualsBase)
        => /\ res.kind = "ok"
           /\ res.value.delta_enrolled = 0
           /\ res.value.effect_applicants = 0
           /\ res.value.effect_admit_rate = 0
           /\ res.value.effect_yield = 0
           /\ res.value.residual = 0
           /\ res.value.enrolled_compare = res.value.enrolled_base

\* C21's case: 1000 applicants at 50% and 40% in both periods, 200 enrolled
\* and nothing to attribute.
C21_Witness ==
    /\ Done("decompose") /\ CompareEqualsBase
    /\ args.applicants_base = 1000 /\ args.admit_rate_base = 5000
    /\ args.yield_rate_base = 4000
    /\ res.value.enrolled_base = 200 /\ res.value.delta_enrolled = 0


\* The entries of the call that are finite and not negative.
FiniteShares == SelectSeq(args.proportions, LAMBDA p : p.cls = "finite" /\ p.num >= 0)

\* The kept entries are n >= 1 equal positive shares.
EqualShares ==
    /\ FiniteShares # <<>>
    /\ \A i \in 1..Len(FiniteShares) :
          FiniteShares[i].num > 0 /\ FiniteShares[i] = FiniteShares[1]

\* C22: the diversity index drops missing, non-finite and negative entries
\* and is 1 - sum(p_i^2) of the rest: always a number in [0, 1), 0 when
\* nothing valid remains, 0 for a single group, 1 - 1/n (to 4 decimals) for n
\* equal groups.
C22_IndexOfFiniteSharesInUnitRange ==
    Done("diversity_index")
        => /\ res.value.cls = "finite"
           /\ 0 <= res.value.num /\ res.value.num < IndexScale
           /\ res.value = calculate_diversity_index(FiniteShares)
           /\ FiniteShares = <<>> => res.value.num = 0
           /\ EqualShares
                => res.value.num = ScaledRound(Len(FiniteShares) - 1, Len(FiniteShares), 4)


\* Every share of the row is a whole percentage of the range 0-100.
SharesArePercentages ==
    \A c \in DOMAIN args.row :
        /\ args.row[c].cls = "finite"
        /\ args.row[c].num % Pct = 0
        /\ args.row[c].num \div Pct <= Pct

\* The same row with every share given as a fraction.
RowAsFractions == [c \in DOMAIN args.row |-> Finite(args.row[c].num \div Pct, Pct)]

\* C30: the diversity index of a row whose shares are percentages (0-100) is
\* the index of the same row with the shares given as fractions (0-1), also
\* when a percentage share is 1 or less.
C30_ShareScaleDoesNotMatter ==
    (Done("institution_diversity") /\ SharesArePercentages)
        => res.value = calculate_institution_diversity(RowAsFractions)


\* The values of the metric asked for that are not missing, as a bag of row
\* positions.
NonMissingRows ==
    IF args.peer_group = <<>> \/ args.metric \notin DOMAIN args.peer_group[1] THEN {}
    ELSE {i \in 1..Len(args.peer_group) : args.peer_group[i][args.metric].cls = "finite"}

MetricAt(i) == args.peer_group[i][args.metric].num

\* C23: peer statistics are the empty struct exactly when the peer group is
\* empty, the metric column is absent or every value is missing; otherwise
\* count is the number of non-missing values and the statistics are those of
\* the non-missing values only: min and max are the least and greatest of
\* them, the mean is their sum over their count to 2 decimals, and the median
\* and percentiles lie between min and max.
C23_StatisticsOfNonMissingValues ==
    Done("peer_statistics")
        => /\ res.value = EmptyDict <=> NonMissingRows = {}
           /\ NonMissingRows # {}
                => LET rows == NonMissingRows
                       stats == res.value
                       total == SumSeq([i \in 1..Len(args.peer_group) |->
                                          IF i \in rows THEN MetricAt(i) ELSE 0])
                   IN  /\ stats.count = Cardinality(rows)
                       /\ \E i \in rows : stats.min = Finite(Pct * MetricAt(i), Pct)
                       /\ \A i \in rows : Pct * MetricAt(i) >= stats.min.num
                       /\ \E i \in rows : stats.max = Finite(Pct * MetricAt(i), Pct)
                       /\ \A i \in rows : Pct * MetricAt(i) <= stats.max.num
                       /\ 2 * Abs(stats.mean.num * stats.count - Pct * total) <= stats.count
                       /\ \A key \in {"median", "p10", "p25", "p50", "p75", "p90"} :
                             stats.min.num <= stats[key].num /\ stats[key].num <= stats.max.num
                       /\ stats.median = stats.p50
                       /\ stats.std.cls = "finite" <=> stats.count >= 2

\* C23's case: a peer group of three rows, one of them without the metric,
\* whose two values 1 and 4 give count 2, mean 2.5, min 1 and max 4.
C23_Witness ==
    /\ Done("peer_statistics")
    /\ Len(args.peer_group) = 3 /\ Cardinality(NonMissingRows) = 2
    /\ res.value # EmptyDict
    /\ res.value.count = 2 /\ res.value.mean = Finite(250, Pct)
    /\ res.value.min = Finite(100, Pct) /\ res.value.max = Finite(400, Pct)


\* C24: for every total >= 0 and successes in 0..total the Wilson interval
\* has 0 <= lower <= upper <= 100; it is (0, 0) when total is 0, lower is 0
\* when successes is 0, and upper is exactly 100 when successes = total > 0.
C24_WilsonBoundsWithinRange ==
    Done("wilson_interval")
        => /\ 0 <= res.value.lower
           /\ res.value.lower <= res.value.upper
           /\ res.value.upper <= Pct * Pct
           /\ args.total = 0 => res.value.lower = 0 /\ res.value.upper = 0
           /\ args.successes = 0 => res.value.lower = 0
           /\ (args.successes = args.total /\ args.total > 0) => res.value.upper = Pct * Pct

\* C24's case: no success in one trial gives the interval (0, 79.35).
C24_Witness ==
    /\ Done("wilson_interval")
    /\ args.total = 1 /\ args.successes = 0
    /\ res.value.lower = 0 /\ res.value.upper = 7935

\* C24's other end: every trial of nine a success gives (70.09, 100).
C24_WitnessAllSuccesses ==
    /\ Done("wilson_interval")
    /\ args.total = MaxTotal /\ args.successes = MaxTotal
    /\ res.value.upper = Pct * Pct /\ res.value.lower > 0


\* C28: simulate returns proj_admit_rate and proj_yield_rate inside [0, 100],
\* and with proj_applicants >= 0 the projected funnel is ordered,
\* 0 <= proj_enrolled <= proj_admitted <= proj_applicants.
C28_ProjectedRatesClampedAndFunnelOrdered ==
    Done("simulate")
        => /\ res.kind = "ok"
           /\ 0 <= res.value.proj_admit_rate /\ res.value.proj_admit_rate <= Pct * Pct
           /\ 0 <= res.value.proj_yield_rate /\ res.value.proj_yield_rate <= Pct * Pct
           /\ res.value.proj_applicants >= 0
                => /\ 0 <= res.value.proj_enrolled
                   /\ res.value.proj_enrolled <= res.value.proj_admitted
                   /\ res.value.proj_admitted <= res.value.proj_applicants

\* C28's case: a yield rate of 95% raised by 10 points is projected at 100%,
\* not 105%, and an admit rate of 5% lowered by 10 points at 0%.
C28_Witness ==
    /\ Done("simulate")
    /\ args.base_yield_rate = 95 /\ args.yield_rate_change_pp = 10
    /\ args.base_admit_rate = 5 /\ args.admit_rate_change_pp = 0 - 10
    /\ args.base_applicants = 100
    /\ res.value.proj_yield_rate = Pct * Pct /\ res.value.proj_admit_rate = 0
    /\ res.value.proj_enrolled = 0 /\ res.value.proj_admitted = 0


\* The change, in hundredths, the returned recommendations ask of a lever.
RECURSIVE ChangeOf(_, _)
ChangeOf(recs, lever) ==
    IF recs = << >> THEN 0
    ELSE (IF Head(recs).lever = lever THEN Head(recs).change ELSE 0)
         + ChangeOf(Tail(recs), lever)

\* The rate simulate projects from a base rate and a change in hundredths of
\* a point, in hundredths of a percent: max(0, min(100, base + change)).
ProjectedRate(base_rate, change) == Max(0, Min(Pct * Pct, Pct * base_rate + change))

\* C25: when goalSeek returns goal_met = true with recommendations, the base
\* funnel with all recommended changes applied by simulate's formula
\* (applicants * (1 + change / 100), rates clamped to [0, 100]) enrolls the
\* target, up to half a hundredth of the last recommendation's change.
C25_RecommendedChangesReachTarget ==
    (Done("goalSeek") /\ res.kind = "ok" /\ res.value.goal_met
        /\ res.value.recommendations # << >>)
        => LET recs == res.value.recommendations
               last == recs[Len(recs)]
               applicants == args.base_applicants
               yield == ProjectedRate(args.base_yield_rate, ChangeOf(recs, "yield_rate"))
               admit == ProjectedRate(args.base_admit_rate, ChangeOf(recs, "admit_rate"))
               growth == ChangeOf(recs, "applicants")
               goal == args.enrollment_goal
           IN  CASE last.lever = "yield_rate" ->
                      /\ growth = 0 /\ admit = Pct * args.base_admit_rate
                      /\ 2 * Abs(applicants * args.base_admit_rate * yield - goal * Pow10(6))
                            <= applicants * args.base_admit_rate
                 [] last.lever = "admit_rate" ->
                      /\ growth = 0 /\ yield % Pct = 0
                      /\ 2 * Abs(applicants * admit * (yield \div Pct) - goal * Pow10(6))
                            <= applicants * (yield \div Pct)
                 [] last.lever = "applicants" ->
                      /\ yield % Pct = 0 /\ admit % Pct = 0
                      /\ LET at_rates == applicants * (admit \div Pct) * (yield \div Pct)
                         IN  2 * Abs(at_rates * growth - (goal * Pow10(4) - at_rates) * Pow10(4))
                                <= at_rates

\* C25's case: 100 applicants at 40% and 50% asked for 25: yield is raised by
\* its 10 points and admit by 1.67 points, and 100 * 41.67% * 60% is 25.002.
C25_Witness ==
    /\ Done("goalSeek") /\ res.kind = "ok" /\ res.value.goal_met
    /\ args.base_applicants = 100 /\ args.base_admit_rate = 40
    /\ args.base_yield_rate = 50 /\ args.enrollment_goal = 25
    /\ Len(res.value.recommendations) = 2
    /\ ChangeOf(res.value.recommendations, "yield_rate") = 1000
    /\ ChangeOf(res.value.recommendations, "admit_rate") = 167

\* C25's third lever: 100 applicants at 40% and 40% asked for 30: both rates
\* are raised by 10 points and applicants by 20%, and 120 * 50% * 50% is 30.
C25_WitnessApplicants ==
    /\ Done("goalSeek") /\ res.kind = "ok" /\ res.value.goal_met
    /\ args.base_applicants = 100 /\ args.base_admit_rate = 40
    /\ args.base_yield_rate = 40 /\ args.enrollment_goal = 30
    /\ Len(res.value.recommendations) = 3
    /\ ChangeOf(res.value.recommendations, "applicants") = 2000


\* The base rate, in percent, of a rate lever.
BaseRateOf(lever) ==
    IF lever = "yield_rate" THEN args.base_yield_rate ELSE args.base_admit_rate

\* C26: every yield_rate or admit_rate recommendation has a change in
\* (0, 10] points and base rate + change is at most 100: the change is the
\* raise the solver assumes, also for the 'Maximize' recommendations of a
\* base rate above 90.
C26_RateChangeIsRaiseAssumed ==
    (Done("goalSeek") /\ res.kind = "ok")
        => \A i \in DOMAIN res.value.recommendations :
              LET rec == res.value.recommendations[i]
              IN  rec.lever \in {"yield_rate", "admit_rate"}
                    => /\ 0 < rec.change
                       /\ rec.change <= Pct * MaxYieldPp
                       /\ Pct * BaseRateOf(rec.lever) + rec.change <= Pct * Pct
                       /\ rec.message \in {"Maximize yield rate", "Maximize admit rate"}
                            => rec.change
                                 = Pct * (Min(Pct, BaseRateOf(rec.lever) + MaxYieldPp)
                                            - BaseRateOf(rec.lever))


\* goal_met of the same base funnel asked for another target.
GoalMetFor(target) ==
    LET other == calculate_goal_recommendations(args.base_applicants, args.base_admit_rate,
                                                args.base_yield_rate, target)
    IN  other.kind = "ok" /\ other.value.goal_met

\* C27: goalSeek is monotone in the target for positive base applicants: a
\* goal met for a target is met for every smaller target, and a goal not met
\* for a target is not met for any larger one.
C27_GoalMetMonotoneInTarget ==
    (Done("goalSeek") /\ args.base_applicants > 0)
        => /\ res.kind = "ok"
           /\ \A target \in 0..MaxGoal :
                 /\ (res.value.goal_met /\ target <= args.enrollment_goal)
                        => GoalMetFor(target)
                 /\ (~res.value.goal_met /\ target >= args.enrollment_goal)
                        => ~GoalMetFor(target)

\* C27's case: 8 applicants at 50% and 50% can be taken to 3 enrolled (both
\* rates at 60% and 30% more applicants give 3.74) and not to 4.
C27_Witness ==
    /\ Done("goalSeek") /\ res.kind = "ok"
    /\ args.base_applicants = 8 /\ args.base_admit_rate = 50 /\ args.base_yield_rate = 50
    /\ args.enrollment_goal = 4
    /\ ~res.value.goal_met
    /\ GoalMetFor(3) /\ ~GoalMetFor(MaxGoal)


\* The rows of the requested year, in table order.
RequestedYearSlice == SelectSeq(args.facts, IsRequestedYear)

\* The target's row for the requested year.
TargetRow ==
    CHOOSE row \in {args.facts[i] : i \in DOMAIN args.facts} :
        row.institution_name = args.target /\ row.year = args.year

\* C29: every row get_peer_group returns is a row of the requested year and
\* appears once; under same_region, same_state and same_size every returned
\* row has the target row's attribute; under top_n_applicants no row left
\* out has more applicants than a returned row other than the target's; an
\* unrecognised mode, and 'similar' without neighbours, return the whole
\* year slice.
C29_PeerRowsFollowTheMode ==
    Done("get_peer_group")
        => /\ res.kind = "ok"
           /\ LET rows == res.value
                  returned == {rows[i] : i \in DOMAIN rows}
                  slice == {RequestedYearSlice[i] : i \in DOMAIN RequestedYearSlice}
              IN  /\ returned \subseteq slice
                  /\ \A i, j \in DOMAIN rows : i # j => rows[i] # rows[j]
                  /\ (TargetHasRow /\ args.peer_type = "same_region")
                        => \A row \in returned : row.region = TargetRow.region
                  /\ (TargetHasRow /\ args.peer_type = "same_state")
                        => \A row \in returned : row.state = TargetRow.state
                  /\ (TargetHasRow /\ args.peer_type = "same_size")
                        => \A row \in returned : row.institution_size = TargetRow.institution_size
                  /\ (TargetHasRow /\ args.peer_type = "top_n_applicants")
                        => \A out \in slice \ returned : \A row \in returned :
                              row.institution_name # args.target
                                 => out.applicants <= row.applicants
                  /\ (args.peer_type = "custom"
                        \/ (args.peer_type = "similar" /\ args.similar = None))
                        => rows = RequestedYearSlice

\* C29's case: the largest row by applicants of a year of three, where the
\* first row of the table is not the largest and is left out.
C29_Witness ==
    /\ Done("get_peer_group") /\ TargetHasRow
    /\ args.peer_type = "top_n_applicants" /\ args.n = 1
    /\ Len(RequestedYearSlice) = 3 /\ Len(res.value) = 1
    /\ res.value[1].applicants = 200 /\ RequestedYearSlice[1].applicants = 100
    /\ res.value[1].institution_name # args.target

\* C29's fallback: an unrecognised mode returns the three rows of the year.
C29_WitnessUnrecognisedMode ==
    /\ Done("get_peer_group") /\ TargetHasRow
    /\ args.peer_type = "custom"
    /\ Len(res.value) = 3 /\ res.value = RequestedYearSlice

=============================================================================
